---- MODULE Spec2Model ----
(***************************************************************************)
(* A model of the rsorth bytecode interpreter (SorthInterpreter), its      *)
(* contextual containers (Dictionary, ContextualList) and the native words *)
(* the properties below are about.                                         *)
(*                                                                         *)
(* Representation notes.                                                   *)
(*  - A usize is represented by an integer n: n >= 0 stands for n and      *)
(*    n < 0 stands for 2^64 + n (the value a wrapping subtraction leaves). *)
(*  - A source location is a tuple: <<>> is None, <<name, pc>> is the      *)
(*    location of instruction pc of block name, Here is location_here!().  *)
(*  - A String value carries the parts its text was formatted from.        *)
(***************************************************************************)
EXTENDS Integers, Sequences, FiniteSets, TLC

MaxCodeLen == 3

MaxHostMarks == 1

MaxArrayLen == 2

\* The largest relative index of a Jump, forward and backward.
MaxJump == 2

\* The most word handlers the host registers.
MaxWords == 3

\* The most characters of a string written to a byte buffer.
MaxStringChars == 2

\* The most tokens of a token stream.
MaxTokens == 3

\* The deepest stack pick is called on, and the largest index picked.
MaxPick == 3

\* The most instructions of a block with loops.
MaxLoopCode == 4

\* The most items and the most marked contexts of a contextual list.
MaxItems == 4

\* The size of the byte buffers, and the largest slot size.
MaxBufferLen == 3

VARIABLES
    dictionary,        \* Dictionary.stack: a stack of name -> WordInfo maps
    word_handlers,     \* WordList: ContextualList<WordHandlerInfo>
    data_definitions,  \* DataDefinitionList
    variables,         \* VariableList: ContextualList<Value>
    stack,             \* the data stack
    call_stack,        \* CallStack: Vec<CallItem>
    current_location,  \* Option<SourceLocation>
    frames,            \* the active execute_code invocations, innermost last
    status,            \* "host" | "running" | "done" | "panicked"
    result,            \* what the outermost execute_code returned
    heap,              \* the Rc<RefCell<..>> cells allocated so far
    constructors,      \* the CodeConstructor stack: tokens, cursor, code
    history,           \* what the host's marks remember (for the properties)
    event              \* what the last step did (history, for the properties)

vars == <<dictionary, word_handlers, data_definitions, variables, stack,
          call_stack, current_location, frames, status, result, heap,
          constructors, history, event>>

Last(s) == s[Len(s)]

Front(s) == SubSeq(s, 1, Len(s) - 1)

NoLoc == <<>>

Here == <<"native", 0>>

----------------------------------------------------------------------------
(* runtime/error.rs *)

NoError == [location |-> NoLoc, error |-> "", call_stack |-> <<>>]

Ok == [ok |-> TRUE, err |-> NoError]

Err(e) == [ok |-> FALSE, err |-> e]

\* script_error: the error carries the interpreter's current location and a
\* copy of its call stack.
script_error(m, message) ==
    Err([location |-> m.current_location, error |-> message,
         call_stack |-> m.call_stack])

\* Display for ScriptError: "<location>: <error>" or "<error>", then the
\* "Call stack" trailer listing the items newest first.
ErrorToString(e) ==
    [location |-> e.location, text |-> e.error, has_trace |-> TRUE,
     trace |-> [i \in 1..Len(e.call_stack) |->
                    e.call_stack[Len(e.call_stack) + 1 - i]]]

\* The String holding exactly the text s.
PlainString(s) ==
    [location |-> NoLoc, text |-> s, has_trace |-> FALSE, trace |-> <<>>]

StringValue(str) == [t |-> "String", n |-> 0, str |-> str]

IntValue(n) == [t |-> "Int", n |-> n, str |-> PlainString("")]

NoneValue == [t |-> "None", n |-> 0, str |-> PlainString("")]

BoolValue(b) ==
    [t |-> "Bool", n |-> IF b THEN 1 ELSE 0, str |-> PlainString("")]

\* Value::Float of the whole number n; str holds what Display writes.
FloatValue(n) == [t |-> "Float", n |-> n, str |-> PlainString(ToString(n))]

\* Value::Float(f64::NAN), the result of 0.0 / 0.0.
NaNValue == [t |-> "Float", n |-> 0, str |-> PlainString("NaN")]

\* Value::Token: kind is TokenNumber (n is the number), TokenString or
\* TokenWord (text is the string or the word); the token keeps its location.
TokenValue(kind, location, n, text) ==
    [t |-> kind, n |-> n,
     str |-> [PlainString(text) EXCEPT !.location = location]]

----------------------------------------------------------------------------
(* runtime/data_structures/contextual_list.rs *)

SubList(start_index) == [items |-> <<>>, start_index |-> start_index]

ListLen(l) ==
    IF l # <<>> THEN Last(l).start_index + Len(Last(l).items) ELSE 0

ListMarkContext(l) == Append(l, SubList(ListLen(l)))

ListNew == ListMarkContext(<<>>)

\* release_context keeping the items of the context released
ListReleaseContextKeeping(l) ==
    IF l = <<>> \/ Len(l) = 1
    THEN [panic |-> TRUE, v |-> l]
    ELSE [panic |-> FALSE,
          v |-> [Front(l) EXCEPT ![Len(l) - 1].items = @ \o Last(l).items]]

\* panic |-> TRUE: the call panicked and left the list as it was.
ListReleaseContext(l) ==
    IF l = <<>> \/ Len(l) = 1
    THEN [panic |-> TRUE, v |-> l]
    ELSE [panic |-> FALSE, v |-> Front(l)]

\* insert returning the index within the top context
ListInsertLocal(l, value) ==
    LET n == [l EXCEPT ![Len(l)].items = Append(@, value)]
    IN  [v |-> n, index |-> Len(Last(n).items) - 1]

ListInsert(l, value) ==
    LET n == [l EXCEPT ![Len(l)].items = Append(@, value)]
    IN  [v |-> n, index |-> ListLen(n) - 1]

\* Index scanning the contexts oldest first
ListIndexOldestFirst(l, index) ==
    LET holders == {k \in 1..Len(l) : l[k].start_index <= index}
        k == CHOOSE i \in holders : \A j \in holders : i <= j
        at == index - l[k].start_index
    IN  IF index < 0 \/ index >= ListLen(l) \/ holders = {}
           \/ at >= Len(l[k].items)
        THEN [panic |-> TRUE, value |-> 0]
        ELSE [panic |-> FALSE, value |-> l[k].items[at + 1]]

\* Index for ContextualList: the contexts are scanned newest first for one
\* that starts at or below index.
ListIndex(l, index) ==
    LET holders == {k \in 1..Len(l) : l[k].start_index <= index}
        k == CHOOSE i \in holders : \A j \in holders : j <= i
        at == index - l[k].start_index
    IN  IF index < 0 \/ index >= ListLen(l) \/ holders = {}
           \/ at >= Len(l[k].items)
        THEN [panic |-> TRUE, value |-> 0]
        ELSE [panic |-> FALSE, value |-> l[k].items[at + 1]]

RECURSIVE ListIter(_)
\* ContextualListIterator: what next() yields until None, the items of each
\* context in turn, oldest context first.
ListIter(l) ==
    IF l = <<>> THEN <<>> ELSE Head(l).items \o ListIter(Tail(l))

----------------------------------------------------------------------------
(* runtime/data_structures/dictionary.rs *)

EmptyFun == [x \in {} |-> 0]

DictMarkContext(d) == Append(d, EmptyFun)

DictNew == DictMarkContext(<<>>)

DictReleaseContextUnchecked(d) ==
    [panic |-> FALSE, v |-> Front(d)]

DictReleaseContext(d) ==
    IF d = <<>> \/ Len(d) = 1
    THEN [panic |-> TRUE, v |-> d]
    ELSE [panic |-> FALSE, v |-> Front(d)]

DictInsert(d, name, info) ==
    [d EXCEPT ![Len(d)] = (name :> info) @@ @]

\* The frames holding name, newest first.
DictHolders(d, name) == {i \in 1..Len(d) : name \in DOMAIN d[i]}

DictHas(d, name) == DictHolders(d, name) # {}

\* try_get scanning the contexts oldest first
try_get_oldest(d, name) ==
    LET i == CHOOSE k \in DictHolders(d, name) :
                 \A j \in DictHolders(d, name) : k <= j
    IN  d[i][name]

try_get(d, name) ==
    LET i == CHOOSE k \in DictHolders(d, name) :
                 \A j \in DictHolders(d, name) : j <= k
    IN  d[i][name]

----------------------------------------------------------------------------
(* usize arithmetic (see the representation notes) *)

\* a < b on usize values.
UsizeLt(a, b) == IF (a < 0) = (b < 0) THEN a < b ELSE b < 0

\* (pc as i64 + relative_index) as usize
absolute_index(pc, relative_index) == pc + relative_index

----------------------------------------------------------------------------
(* lang/code.rs *)

\* An instruction: op with its operand (a word name, a relative index or a
\* constant value) and whether it carries a source location.
Instruction(op, name, rel, located) ==
    [op |-> op, name |-> name, rel |-> rel, located |-> located,
     value |-> IF op = "PushConstantValue" THEN IntValue(rel) ELSE NoneValue]

\* Op::PushConstantValue(value), as generated code (no location)
PushValue(value) ==
    [op |-> "PushConstantValue", name |-> "", rel |-> 0, located |-> FALSE,
     value |-> value]

\* The location of instruction pc of block name, when it has one.
LocationOf(name, pc) == <<name, pc>>

----------------------------------------------------------------------------
(* runtime/interpreter/sorth_interpreter.rs *)

\* The interpreter as one record, so that the helpers below are functions
\* from interpreter to interpreter.
M == [dictionary |-> dictionary, word_handlers |-> word_handlers,
      data_definitions |-> data_definitions, variables |-> variables,
      stack |-> stack, call_stack |-> call_stack,
      current_location |-> current_location, frames |-> frames,
      status |-> status, result |-> result, heap |-> heap,
      constructors |-> constructors, history |-> history, event |-> event]

Commit(n) ==
    /\ dictionary' = n.dictionary
    /\ word_handlers' = n.word_handlers
    /\ data_definitions' = n.data_definitions
    /\ variables' = n.variables
    /\ stack' = n.stack
    /\ call_stack' = n.call_stack
    /\ current_location' = n.current_location
    /\ frames' = n.frames
    /\ status' = n.status
    /\ result' = n.result
    /\ heap' = n.heap
    /\ constructors' = n.constructors
    /\ history' = n.history
    /\ event' = n.event

NoPending == [on |-> FALSE, from |-> 0, level |-> 0, target |-> 0,
              catches |-> <<>>, error |-> NoError]

NoMark == [variables |-> 0, word_handlers |-> 0, data_definitions |-> 0,
           names |-> {}]

NoEvent == [kind |-> "none", level |-> 0, target |-> 0, mark |-> NoMark,
            pending |-> NoPending]

\* A panic aborts the host process.
Panic(m) == [m EXCEPT !.status = "panicked"]

\* ContextualData for SorthInterpreter
mark_context_but_variables(m) ==
    [m EXCEPT !.dictionary = DictMarkContext(@),
              !.word_handlers = ListMarkContext(@),
              !.data_definitions = ListMarkContext(@)]

mark_context(m) ==
    [m EXCEPT !.dictionary = DictMarkContext(@),
              !.word_handlers = ListMarkContext(@),
              !.data_definitions = ListMarkContext(@),
              !.variables = ListMarkContext(@)]

release_context(m) ==
    LET d  == DictReleaseContext(m.dictionary)
        w  == ListReleaseContext(m.word_handlers)
        dd == ListReleaseContext(m.data_definitions)
        v  == ListReleaseContext(m.variables)
        m1 == [m  EXCEPT !.dictionary = d.v]
        m2 == [m1 EXCEPT !.word_handlers = w.v]
        m3 == [m2 EXCEPT !.data_definitions = dd.v]
        m4 == [m3 EXCEPT !.variables = v.v]
    IN  IF d.panic THEN Panic(m1)
        ELSE IF w.panic THEN Panic(m2)
        ELSE IF dd.panic THEN Panic(m3)
        ELSE IF v.panic THEN Panic(m4)
        ELSE m4

\* The number of context frames of the four containers.
Depths(m) == <<Len(m.dictionary), Len(m.word_handlers),
               Len(m.data_definitions), Len(m.variables)>>

push(m, value) == [m EXCEPT !.stack = Append(@, value)]

add_word(m, name, handler) ==
    LET ins == ListInsert(m.word_handlers, [name |-> name, handler |-> handler])
    IN  [m EXCEPT !.word_handlers = ins.v,
                  !.dictionary = DictInsert(@, name,
                                     [name |-> name,
                                      handler_index |-> ins.index])]

word_handler_info(m, index) ==
    LET holders == {i \in 1..Len(m.word_handlers) :
                        m.word_handlers[i].start_index <= index}
        i == CHOOSE k \in holders : \A j \in holders : j <= k
    IN  m.word_handlers[i].items[index - m.word_handlers[i].start_index + 1]

\* call_stack_pop: an error when the call stack is empty.
call_stack_pop(m) ==
    IF m.call_stack = <<>>
    THEN [m |-> m, res |-> script_error(m, "Call stack underflow.")]
    ELSE [m |-> [m EXCEPT !.call_stack = Front(@)], res |-> Ok]

Top(m) == Last(m.frames)

SetTop(m, f) == [m EXCEPT !.frames[Len(m.frames)] = f]

\* The names lookup can find.
FindableNames(d) == UNION {DOMAIN d[i] : i \in 1..Len(d)}

\* What a MarkContext remembers for the properties: the lengths of the lists
\* and the findable names when the context was marked.
Snapshot(m) ==
    [variables |-> ListLen(m.variables),
     word_handlers |-> ListLen(m.word_handlers),
     data_definitions |-> ListLen(m.data_definitions),
     names |-> FindableNames(m.dictionary)]

\* The state of a fresh execute_code(name, code) invocation.  context is the
\* WordContext of the ScriptFunction that made the call ("None": the host).
\* entry_depths, entry_mark, entry_calls, marks, unreleased, loop_marks
\* (the index and the offset of every MarkLoopExit not unmarked yet) and
\* catch_marks (for every catch location, the loop stack, the open contexts
\* and the container depths when it was marked) are history.
NewFrame(m, name, code, context) ==
    [name |-> name, code |-> code, pc |-> 0, contexts |-> 0,
     loop_locations |-> <<>>, catch_locations |-> <<>>,
     call_stack_pushed |-> FALSE,
     mode |-> "run", res |-> Ok, how |-> "", raised |-> Ok,
     context |-> context,
     entry_depths |-> Depths(m), entry_mark |-> Snapshot(m),
     entry_calls |-> Len(m.call_stack),
     marks |-> <<>>, unreleased |-> 0, open_at_end |-> 0,
     loop_marks |-> <<>>, catch_marks |-> <<>>]

\* The innermost invocation at or below level that holds a catch frame
\* (0: none), its catch stack and the catch index marked last.
NearestCatch(m, level, error) ==
    LET holders == {i \in 1..level : m.frames[i].catch_locations # <<>>}
        i == CHOOSE k \in holders : \A j \in holders : j <= k
    IN  IF holders = {}
        THEN [NoPending EXCEPT !.on = TRUE, !.from = Len(m.frames),
                               !.error = error]
        ELSE [on |-> TRUE, from |-> Len(m.frames), level |-> i,
              target |-> Last(m.frames[i].catch_locations),
              catches |-> m.frames[i].catch_locations,
              error |-> error]

RECURSIVE ReleaseContexts(_, _)
\* for _ in 0..contexts { interpreter.release_context(); }
ReleaseContexts(m, contexts) ==
    IF contexts = 0 \/ m.status = "panicked" THEN m
    ELSE ReleaseContexts(release_context(m), contexts - 1)

cleanup_contexts(m, contexts, report_error) ==
    LET m1 == ReleaseContexts(m, contexts)
        f  == Top(m1)
        m2 == SetTop(m1, [f EXCEPT !.unreleased =
                              @ - (Len(m.dictionary) - Len(m1.dictionary))])
    IN  [m |-> m2,
         res |-> IF report_error /\ contexts > 0
                 THEN script_error(m2, "Unbalanced context handling detected.")
                 ELSE Ok]

\* execute_code returns res: the invocation waits to be popped by Return.
Returning(m, res, how) ==
    SetTop(m, [Top(m) EXCEPT !.mode = "ret", !.res = res, !.how = how])

\* The fetch of the instruction at pc: a located instruction sets the current
\* location and pushes a call stack item.
Fetch(m) ==
    LET f == Top(m)
        instruction == f.code[f.pc + 1]
        location == LocationOf(f.name, f.pc)
    IN  IF instruction.located
        THEN SetTop([m EXCEPT !.current_location = location,
                              !.call_stack = Append(@, <<f.name, location>>)],
                    [f EXCEPT !.call_stack_pushed = TRUE])
        ELSE m

\* catch_locations.pop(): the catch index marked last.
CatchIndexOldest(catch_locations) == Head(catch_locations)

CatchIndex(catch_locations) == Last(catch_locations)

\* pc = catch_index - 1
CatchResumeUnadjusted(catch_index) == catch_index

CatchResume(catch_index) == catch_index - 1

\* What execute_code does with the result of the instruction at pc.  checks:
\* the build has overflow checks (a debug build).
AfterInstruction(m, res, checks) ==
    LET f == Top(m) IN
    IF ~res.ok
    THEN IF f.catch_locations # <<>>
         THEN LET catch_index == CatchIndex(f.catch_locations)
                  f1 == [f EXCEPT !.catch_locations = Front(@),
                                  !.catch_marks = Front(@),
                                  !.pc = CatchResume(catch_index) + 1]
                  m1 == push(SetTop(m, f1),
                             StringValue(ErrorToString(res.err)))
              IN  IF catch_index = 0 /\ checks
                  THEN Panic(m)
                  ELSE [m1 EXCEPT !.event.kind = "catch",
                                  !.event.level = Len(m.frames),
                                  !.event.target = catch_index]
         ELSE LET popped == IF f.call_stack_pushed
                            THEN call_stack_pop(m)
                            ELSE [m |-> m, res |-> Ok]
                  cleaned == cleanup_contexts(popped.m, f.contexts, FALSE)
                  m1 == SetTop(cleaned.m,
                               [Top(cleaned.m) EXCEPT !.raised = res])
              IN  IF ~popped.res.ok
                  THEN Returning(SetTop(popped.m,
                                    [Top(popped.m) EXCEPT !.raised = res]),
                                 popped.res, "error")
                  ELSE IF cleaned.m.status = "panicked" THEN cleaned.m
                  ELSE Returning(m1, res, "error")
    ELSE LET popped == IF f.call_stack_pushed
                       THEN call_stack_pop(m)
                       ELSE [m |-> m, res |-> Ok]
             f1 == Top(popped.m)
         IN  IF ~popped.res.ok
             THEN Returning(popped.m, popped.res, "error")
             ELSE SetTop(popped.m,
                         [f1 EXCEPT !.call_stack_pushed = FALSE,
                                    !.pc = f.pc + 1])

\* An instruction yielded the error res: note which catch frame, searching
\* outward from invocation level, is the nearest one.
Raise(m, res, level) ==
    IF res.ok THEN m
    ELSE [m EXCEPT !.event.pending = NearestCatch(m, level, res.err)]

\* The builds to consider for a step: both when the step subtracts one from
\* a zero usize (a debug build panics, a release build wraps), else one.
Builds(m, res) ==
    IF /\ ~res.ok
       /\ Top(m).catch_locations # <<>>
       /\ Last(Top(m).catch_locations) = 0
    THEN BOOLEAN ELSE {FALSE}

\* The instruction the innermost invocation is about to execute.
Cur == Top(M).code[Top(M).pc + 1]

\* while pc < code.len(), with the instruction at pc being an op.
AtOp(op) ==
    /\ status = "running"
    /\ Top(M).mode = "run"
    /\ UsizeLt(Top(M).pc, Len(Top(M).code))
    /\ Cur.op = op

\* The interpreter at the start of a step: the history of the last step is
\* dropped, except for the catch frame expected by an error still unwinding.
Begin ==
    [M EXCEPT !.event =
        [NoEvent EXCEPT !.pending =
            IF frames # <<>> /\ Top(M).mode = "ret" /\ ~Top(M).res.ok
            THEN event.pending ELSE NoPending]]

\* The instruction's own effect yielded res in interpreter m: the rest of the
\* loop body.
Complete(m, res) ==
    \E checks \in Builds(m, res) :
        Commit(AfterInstruction(Raise(m, res, Len(m.frames)), res, checks))

\* Op::MarkContext
MarkContext ==
    /\ AtOp("MarkContext")
    /\ LET m0 == Fetch(Begin)
           m1 == mark_context(m0)
           f  == Top(m1)
       IN  Complete(SetTop(m1, [f EXCEPT !.contexts = @ + 1,
                                         !.marks = Append(@, Snapshot(m0)),
                                         !.unreleased = @ + 1]),
                    Ok)

\* What Op::ReleaseContext does to the interpreter when contexts != 0.
ReleaseContextEffect(m) ==
    SetTop(m, [Top(m) EXCEPT !.contexts = @ - 1])

\* Op::ReleaseContext releasing a frame whatever contexts is
ReleaseContextUnguarded ==
    /\ AtOp("ReleaseContext")
    /\ Complete(release_context(Fetch(Begin)), Ok)

\* Op::ReleaseContext
ReleaseContext ==
    /\ AtOp("ReleaseContext")
    /\ LET m0 == Fetch(Begin)
           f  == Top(m0)
           m1 == ReleaseContextEffect(m0)
           m2 == SetTop(m1, [Top(m1) EXCEPT
                     !.marks = Front(@),
                     !.unreleased =
                         @ - (Len(m0.dictionary) - Len(m1.dictionary))])
       IN  IF f.contexts # 0
           THEN Complete([m2 EXCEPT !.event.kind = "release",
                                    !.event.mark = Last(f.marks)],
                         Ok)
           ELSE Complete(m0, script_error(m0,
                             "Unbalanced context release detected."))

\* define_variable, for a stringable name
define_variable(m, name) ==
    LET ins == ListInsert(m.variables, NoneValue)
    IN  add_word([m EXCEPT !.variables = ins.v], name,
                 [kind |-> "variable", index |-> ins.index])

\* Op::DefVariable
DefVariable ==
    /\ AtOp("DefVariable")
    /\ Complete(define_variable(Fetch(Begin), Cur.name), Ok)

\* Op::MarkCatch
MarkCatch ==
    /\ AtOp("MarkCatch")
    /\ LET m0 == Fetch(Begin)
           f  == Top(m0)
       IN  Complete(SetTop(m0, [f EXCEPT
                        !.catch_locations =
                            Append(@, absolute_index(f.pc, Cur.rel)),
                        !.catch_marks =
                            Append(@, [loop_locations |-> f.loop_locations,
                                       contexts |-> f.contexts,
                                       depths |-> Depths(m0)])]),
                    Ok)

\* Op::UnmarkCatch
UnmarkCatch ==
    /\ AtOp("UnmarkCatch")
    /\ LET m0 == Fetch(Begin)
           f  == Top(m0)
       IN  IF f.catch_locations # <<>>
           THEN Complete(SetTop(m0, [f EXCEPT !.catch_locations = Front(@),
                                              !.catch_marks = Front(@)]),
                         Ok)
           ELSE Complete(m0, script_error(m0, "Unbalanced catch exit marker."))

\* pc = absolute_index - 1
JumpResume(absolute) == absolute - 1

\* The builds to consider for pc = absolute_index - 1: both when the index
\* is zero (a debug build panics on the subtraction, a release build wraps
\* and pc += 1 wraps back), else one.
JumpBuilds(absolute) == IF absolute = 0 THEN BOOLEAN ELSE {FALSE}

\* Op::Jump
Jump ==
    /\ AtOp("Jump")
    /\ LET m0 == Fetch(Begin)
           f  == Top(m0)
           absolute == absolute_index(f.pc, Cur.rel)
       IN  \E checks \in JumpBuilds(absolute) :
               IF checks THEN Commit(Panic(m0))
               ELSE Complete(SetTop([m0 EXCEPT !.event.kind = "jump",
                                               !.event.target = absolute],
                                    [f EXCEPT !.pc = JumpResume(absolute)]),
                             Ok)

\* Op::JumpTarget: nothing to do
JumpTarget ==
    /\ AtOp("JumpTarget")
    /\ Complete(Fetch(Begin), Ok)

\* Op::MarkLoopExit: loop_locations.push(( pc + 1, absolute_index ))
MarkLoopExit ==
    /\ AtOp("MarkLoopExit")
    /\ LET m0 == Fetch(Begin)
           f  == Top(m0)
           absolute == absolute_index(f.pc, Cur.rel)
       IN  Complete(SetTop(m0, [f EXCEPT
                        !.loop_locations = Append(@, <<f.pc + 1, absolute>>),
                        !.loop_marks = Append(@, <<f.pc, Cur.rel>>)]),
                    Ok)

\* Op::UnmarkLoopExit
UnmarkLoopExit ==
    /\ AtOp("UnmarkLoopExit")
    /\ LET m0 == Fetch(Begin)
           f  == Top(m0)
       IN  IF f.loop_locations # <<>>
           THEN Complete(SetTop(m0, [f EXCEPT !.loop_locations = Front(@),
                                              !.loop_marks = Front(@)]),
                         Ok)
           ELSE Complete(m0, script_error(m0, "Unbalanced loop exit marker."))

\* loop_locations[0]
OutermostLoop(loop_locations) == Head(loop_locations)

\* loop_locations[loop_locations.len() - 1]
InnermostLoop(loop_locations) == Last(loop_locations)

\* Op::JumpLoopStart: pc = start - 1
JumpLoopStart ==
    /\ AtOp("JumpLoopStart")
    /\ LET m0 == Fetch(Begin)
           f  == Top(m0)
           start == InnermostLoop(f.loop_locations)[1]
       IN  IF f.loop_locations # <<>>
           THEN \E checks \in JumpBuilds(start) :
                    IF checks THEN Commit(Panic(m0))
                    ELSE Complete(SetTop(m0,
                                      [f EXCEPT !.pc = JumpResume(start)]),
                                  Ok)
           ELSE Complete(m0,
                         script_error(m0, "JumpLoopStart outside of loop."))

\* Op::JumpLoopExit: pc = end - 1
JumpLoopExit ==
    /\ AtOp("JumpLoopExit")
    /\ LET m0 == Fetch(Begin)
           f  == Top(m0)
           end == InnermostLoop(f.loop_locations)[2]
       IN  IF f.loop_locations = <<>>
           THEN Complete(m0,
                         script_error(m0, "JumpLoopExit outside of loop."))
           ELSE \E checks \in JumpBuilds(end) :
                    IF checks THEN Commit(Panic(m0))
                    ELSE Complete(SetTop(m0,
                                      [f EXCEPT !.pc = JumpResume(end)]),
                                  Ok)

\* format!("Word {} not found.", word)
WordNotFound(word) ==
    CASE word = "w" -> "Word w not found."
      [] word = "x" -> "Word x not found."
      [] OTHER -> "Word nope not found."

\* format!("Handler for word {}, ({}) not found.", name, handler_index)
HandlerNotFound(word) ==
    CASE word = "w" -> "Handler for word w not found."
      [] word = "x" -> "Handler for word x not found."
      [] OTHER -> "Handler for word not found."

\* InterpreterStack::pop
pop(m) ==
    IF m.stack = <<>>
    THEN [m |-> m, res |-> script_error(m, "Stack underflow."),
          value |-> NoneValue]
    ELSE [m |-> [m EXCEPT !.stack = Front(@)], res |-> Ok,
          value |-> Last(m.stack)]

\* InterpreterStack::pick: self.stack.remove(self.stack.len() - 1 - index).
\* With index >= len the subtraction overflows: the checked build panics
\* there, the unchecked build wraps to an index Vec::remove panics on.
pick(m, index) ==
    LET at == Len(m.stack) - index
    IN  IF ~UsizeLt(index, Len(m.stack))
        THEN [m |-> m, res |-> Ok, value |-> NoneValue, panic |-> TRUE]
        ELSE [m |-> [m EXCEPT !.stack = SubSeq(@, 1, at - 1)
                                       \o SubSeq(@, at + 1, Len(@))],
              res |-> Ok, value |-> m.stack[at], panic |-> FALSE]

\* Value::is_numeric
is_numeric(value) ==
    value.t \in {"None", "Int", "Float", "Bool", "TokenNumber"}

\* Value::get_int_val: None converts to 0; a value that is not numeric has
\* no conversion (the code panics, see ConvertibleToInt).
get_int_val(value) ==
    IF value.t \in {"Int", "Float", "Bool", "TokenNumber"} THEN value.n
    ELSE 0

\* The values on which Value::get_int_val does not panic.
ConvertibleToInt(value) == is_numeric(value)

\* InterpreterStack::pop_as_int
pop_as_int(m) ==
    LET p == pop(m)
    IN  IF ~p.res.ok THEN [m |-> p.m, res |-> p.res, n |-> 0]
        ELSE IF ~is_numeric(p.value)
        THEN [m |-> p.m, res |-> script_error(p.m, "Expected numeric value."),
              n |-> 0]
        ELSE [m |-> p.m, res |-> Ok, n |-> get_int_val(p.value)]

Abs(n) == IF n < 0 THEN -n ELSE n

\* a / b on i64 with b # 0: the quotient truncated toward zero.
IntDiv(a, b) ==
    IF (a < 0) = (b < 0) THEN Abs(a) \div Abs(b) ELSE -(Abs(a) \div Abs(b))

\* a % b on i64 with b # 0: the remainder has the sign of a.
IntRem(a, b) == a - b * IntDiv(a, b)

\* The outcome of a native handler: the interpreter it leaves, its result,
\* and whether it panicked instead of returning.
Outcome(m, res, panic) == [m |-> m, res |-> res, panic |-> panic]

\* The words mod and /mod (simple_arithmetic_words.rs)
word_mod(m, with_quotient) ==
    LET b == pop_as_int(m)
        a == pop_as_int(b.m)
        m1 == push(a.m, IntValue(IntRem(a.n, b.n)))
    IN  IF ~b.res.ok THEN Outcome(b.m, b.res, FALSE)
        ELSE IF ~a.res.ok THEN Outcome(a.m, a.res, FALSE)
        ELSE IF b.n = 0 THEN Outcome(a.m, Ok, TRUE)
        ELSE IF with_quotient
        THEN Outcome(push(m1, IntValue(IntDiv(a.n, b.n))), Ok, FALSE)
        ELSE Outcome(m1, Ok, FALSE)

\* The words */ and */mod (simple_arithmetic_words.rs)
word_mul_div(m, with_remainder) ==
    LET d == pop_as_int(m)
        b == pop_as_int(d.m)
        a == pop_as_int(b.m)
        prod == a.n * b.n
        m1 == IF with_remainder
              THEN push(a.m, IntValue(IntRem(prod, d.n)))
              ELSE a.m
    IN  IF ~d.res.ok THEN Outcome(d.m, d.res, FALSE)
        ELSE IF ~b.res.ok THEN Outcome(b.m, b.res, FALSE)
        ELSE IF ~a.res.ok THEN Outcome(a.m, a.res, FALSE)
        ELSE IF d.n = 0 THEN Outcome(a.m, Ok, TRUE)
        ELSE Outcome(push(m1, IntValue(IntDiv(prod, d.n))), Ok, FALSE)

\* The iop closures of word_subtract, word_multiply and word_divide.
IntOp(op, a, b) ==
    CASE op = "-" -> a - b
      [] op = "*" -> a * b
      [] OTHER -> IntDiv(a, b)

\* math_op with the iop of op, for the values of the model (no floats):
\* the operands are converted with get_int_val as soon as either is an Int.
math_op(m, op) ==
    LET b == pop(m)
        a == pop(b.m)
    IN  IF ~b.res.ok THEN Outcome(b.m, b.res, FALSE)
        ELSE IF ~a.res.ok THEN Outcome(a.m, a.res, FALSE)
        ELSE IF a.value.t = "Int" \/ b.value.t = "Int"
        THEN IF \/ ~ConvertibleToInt(a.value)
                \/ ~ConvertibleToInt(b.value)
                \/ (op = "/" /\ get_int_val(b.value) = 0)
             THEN Outcome(a.m, Ok, TRUE)
             ELSE Outcome(push(a.m, IntValue(IntOp(op, get_int_val(a.value),
                                                   get_int_val(b.value)))),
                          Ok, FALSE)
        ELSE Outcome(a.m,
                     script_error(a.m, "Value incompatible with numeric op."),
                     FALSE)

\* word_subtract
word_subtract(m) == math_op(m, "-")

\* word_multiply
word_multiply(m) == math_op(m, "*")

\* word_divide
word_divide(m) == math_op(m, "/")

\* Display for SourceLocation: "{path} ({line}, {column})".
LocationToString(location) ==
    location[1] \o " (" \o ToString(location[2]) \o ", 1)"

RECURSIVE TraceToString(_)
\* writeln!(f, "  {}", item) for each item; Display for CallItem is
\* "{location}: {word}".
TraceToString(trace) ==
    IF trace = <<>> THEN ""
    ELSE "  " \o LocationToString(Head(trace)[2]) \o ": " \o Head(trace)[1]
         \o "\n" \o TraceToString(Tail(trace))

\* The text of a String: for the string of an error, what Display for
\* ScriptError wrote.
ToText(str) ==
    (IF str.location # NoLoc
     THEN LocationToString(str.location) \o ": " ELSE "")
    \o str.text
    \o (IF str.has_trace
        THEN "\n\nCall stack\n" \o TraceToString(str.trace) ELSE "")

\* Value::is_stringable
is_stringable(value) ==
    value.t \in {"None", "Int", "Float", "String", "TokenString", "TokenWord"}

\* Value::get_string_val, for the values is_stringable accepts
get_string_val(value) ==
    CASE value.t = "None" -> ""
      [] value.t = "Int" -> ToString(value.n)
      [] value.t \in {"Float", "TokenString", "TokenWord"} -> value.str.text
      [] OTHER -> ToText(value.str)

\* InterpreterStack::pop_as_string
pop_as_string(m) ==
    LET p == pop(m)
    IN  IF ~p.res.ok THEN [m |-> p.m, res |-> p.res, string |-> ""]
        ELSE IF ~is_stringable(p.value)
        THEN [m |-> p.m,
              res |-> script_error(p.m, "Expected a string value."),
              string |-> ""]
        ELSE [m |-> p.m, res |-> Ok, string |-> get_string_val(p.value)]

\* word_throw
word_throw(m) ==
    LET message == pop_as_string(m)
    IN  IF ~message.res.ok THEN Outcome(message.m, message.res, FALSE)
        ELSE Outcome(message.m, script_error(message.m, message.string),
                     FALSE)

----------------------------------------------------------------------------
(* Values handled by reference: the heap of Rc<RefCell<..>> cells *)

\* One cell: a ValueVec (items are its elements), a ValueHash (items are
\* key, value, key, value, ...), a DataObject (items are its fields,
\* definition names its definition) or a ByteBuffer (items are its bytes,
\* position is its cursor). A ByteCode is held by value; the model keeps the
\* operands of its instructions as the items of a cell of kind Code, which
\* is copied whenever the value is.
Cell(kind, items) ==
    [kind |-> kind, items |-> items, position |-> 0, definition |-> ""]

\* Value::Vec(ptr): the reference to the cell at address.
VecValue(address) == [t |-> "Vec", n |-> address, str |-> PlainString("")]

\* Value::Vec, HashMap, DataObject, ByteBuffer or Code: the value of variant
\* kind for the cell at address.
RefValue(kind, address) ==
    [t |-> kind, n |-> address, str |-> PlainString("")]

\* Rc::new(RefCell::new(..)): the new cell is the last of the heap.
Alloc(h, cell) == Append(h, cell)

\* ValueVec::new
ValueVecNew(new_size) == Cell("Vec", [i \in 1..new_size |-> NoneValue])

\* Value::is_vec
is_vec(value) == value.t = "Vec"

\* ValueVec::len of the array value refers to.
VecLen(m, value) == Len(m.heap[value.n].items)

\* InterpreterStack::pop_as_usize: the i64 reinterpreted as usize.
pop_as_usize(m) == pop_as_int(m)

\* InterpreterStack::pop_as_array
pop_as_array(m) ==
    LET p == pop(m)
    IN  IF ~p.res.ok THEN [m |-> p.m, res |-> p.res, value |-> NoneValue]
        ELSE IF ~is_vec(p.value)
        THEN [m |-> p.m, res |-> script_error(p.m, "Expected an array."),
              value |-> NoneValue]
        ELSE [m |-> p.m, res |-> Ok, value |-> p.value]

\* format!("{}", n) of a usize.
UsizeToString(n) ==
    IF n >= 0 THEN ToString(n) ELSE "2^64-" \o ToString(-n)

\* check_bounds (array_words.rs): the error, or Ok.
check_bounds(m, array, index) ==
    IF UsizeLt(VecLen(m, array), index)
    THEN script_error(m, "Index " \o UsizeToString(index)
                         \o " is out of bounds for array of size "
                         \o UsizeToString(VecLen(m, array)) \o ".")
    ELSE Ok

\* Index / IndexMut for ValueVec panic on these indices.
VecIndexPanics(m, array, index) == ~UsizeLt(index, VecLen(m, array))

\* word_array_new
word_array_new(m) ==
    LET size == pop_as_usize(m)
    IN  IF ~size.res.ok THEN Outcome(size.m, size.res, FALSE)
        ELSE IF size.n < 0 THEN Outcome(size.m, Ok, TRUE)
        ELSE Outcome(push([size.m EXCEPT
                              !.heap = Alloc(@, ValueVecNew(size.n))],
                          VecValue(Len(size.m.heap) + 1)),
                     Ok, FALSE)

\* word_array_read_index
word_array_read_index(m) ==
    LET array == pop_as_array(m)
        index == pop_as_usize(array.m)
        bounds == check_bounds(index.m, array.value, index.n)
    IN  IF ~array.res.ok THEN Outcome(array.m, array.res, FALSE)
        ELSE IF ~index.res.ok THEN Outcome(index.m, index.res, FALSE)
        ELSE IF ~bounds.ok THEN Outcome(index.m, bounds, FALSE)
        ELSE IF VecIndexPanics(index.m, array.value, index.n)
        THEN Outcome(index.m, Ok, TRUE)
        ELSE Outcome(push(index.m,
                          index.m.heap[array.value.n].items[index.n + 1]),
                     Ok, FALSE)

\* word_array_write_index
word_array_write_index(m) ==
    LET array == pop_as_array(m)
        index == pop_as_usize(array.m)
        value == pop(index.m)
        bounds == check_bounds(value.m, array.value, index.n)
    IN  IF ~array.res.ok THEN Outcome(array.m, array.res, FALSE)
        ELSE IF ~index.res.ok THEN Outcome(index.m, index.res, FALSE)
        ELSE IF ~value.res.ok THEN Outcome(value.m, value.res, FALSE)
        ELSE IF ~bounds.ok THEN Outcome(value.m, bounds, FALSE)
        ELSE IF VecIndexPanics(value.m, array.value, index.n)
        THEN Outcome(value.m, Ok, TRUE)
        ELSE Outcome([value.m EXCEPT
                         !.heap[array.value.n].items[index.n + 1] =
                             value.value],
                     Ok, FALSE)

\* VecDeque::remove: out of range removes nothing.
VecRemove(items, index) ==
    IF UsizeLt(index, Len(items))
    THEN SubSeq(items, 1, index) \o SubSeq(items, index + 2, Len(items))
    ELSE items

\* word_array_delete
word_array_delete(m) ==
    LET array == pop_as_array(m)
        index == pop_as_usize(array.m)
        bounds == check_bounds(index.m, array.value, index.n)
    IN  IF ~array.res.ok THEN Outcome(array.m, array.res, FALSE)
        ELSE IF ~index.res.ok THEN Outcome(index.m, index.res, FALSE)
        ELSE IF ~bounds.ok THEN Outcome(index.m, bounds, FALSE)
        ELSE Outcome([index.m EXCEPT
                         !.heap[array.value.n].items =
                             VecRemove(@, index.n)],
                     Ok, FALSE)

\* word_array_size
word_array_size(m) ==
    LET array == pop_as_array(m)
    IN  IF ~array.res.ok THEN Outcome(array.m, array.res, FALSE)
        ELSE Outcome(push(array.m, IntValue(VecLen(array.m, array.value))),
                     Ok, FALSE)

\* word_push_back
word_push_back(m) ==
    LET array == pop_as_array(m)
        value == pop(array.m)
    IN  IF ~array.res.ok THEN Outcome(array.m, array.res, FALSE)
        ELSE IF ~value.res.ok THEN Outcome(value.m, value.res, FALSE)
        ELSE Outcome([value.m EXCEPT
                         !.heap[array.value.n].items =
                             Append(@, value.value)],
                     Ok, FALSE)

\* Clone for Value: a value held by reference is the same reference.
clone(value) == value

RECURSIVE deep_clone(_, _)
RECURSIVE DeepCloneItems(_, _)

\* Clone instead of DeepClone: the same reference, no new cell.
shallow_clone(h, value) == [heap |-> h, value |-> clone(value)]

\* Value::deep_clone in heap h: the heap with the new cells, and the clone.
\* Values held by value are copied; a value held by reference gets a new
\* cell whose items are the deep clones of the items of the original.
\* Value::Code(value.clone()) copies the instructions, and the derived Clone
\* of an instruction clones its operand: a reference operand stays the same
\* reference.
deep_clone(h, value) ==
    IF value.t \in {"Vec", "HashMap", "DataObject", "ByteBuffer"}
    THEN LET cloned == DeepCloneItems(h, h[value.n].items)
         IN  [heap |-> Alloc(cloned.heap,
                             [h[value.n] EXCEPT !.items = cloned.items]),
              value |-> [value EXCEPT !.n = Len(cloned.heap) + 1]]
    ELSE IF value.t = "Code"
    THEN [heap |-> Alloc(h, [h[value.n] EXCEPT
                                !.items = [i \in 1..Len(@) |-> clone(@[i])]]),
          value |-> [value EXCEPT !.n = Len(h) + 1]]
    ELSE [heap |-> h, value |-> value]

\* .iter().map(|value| value.deep_clone()).collect()
DeepCloneItems(h, items) ==
    IF items = <<>> THEN [heap |-> h, items |-> <<>>]
    ELSE LET first == deep_clone(h, Head(items))
             rest == DeepCloneItems(first.heap, Tail(items))
         IN  [heap |-> rest.heap, items |-> <<first.value>> \o rest.items]

\* SorthInterpreter::push_constant_value
push_constant_value(m, value) ==
    LET cloned == deep_clone(m.heap, value)
    IN  push([m EXCEPT !.heap = cloned.heap], cloned.value)

\* word_dup
word_dup(m) ==
    LET value == pop(m)
    IN  IF ~value.res.ok THEN Outcome(value.m, value.res, FALSE)
        ELSE Outcome(push(push(value.m, clone(value.value)), value.value),
                     Ok, FALSE)

\* word_swap
word_swap(m) ==
    LET a == pop(m)
        b == pop(a.m)
    IN  IF ~a.res.ok THEN Outcome(a.m, a.res, FALSE)
        ELSE IF ~b.res.ok THEN Outcome(b.m, b.res, FALSE)
        ELSE Outcome(push(push(b.m, a.value), b.value), Ok, FALSE)

----------------------------------------------------------------------------
(* runtime/data_structures/value.rs: equality of values *)

\* Value::get_float_val: the f64, NaN apart from the numbers.
get_float_val(value) ==
    [nan |-> value.t = "Float" /\ value.str.text = "NaN",
     n |-> get_int_val(value)]

\* f64 == f64: NaN is equal to nothing, itself included.
FloatEq(a, b) == ~a.nan /\ ~b.nan /\ a.n = b.n

\* Value::get_bool_val
get_bool_val(value) ==
    CASE value.t = "None" -> FALSE
      [] value.t = "Int" -> value.n # 0
      [] value.t = "Float" -> get_float_val(value).nan \/ value.n # 0
      [] value.t = "Bool" -> value.n = 1
      [] value.t = "String" -> ToText(value.str) # ""
      [] OTHER -> TRUE

\* InterpreterStack::pop_as_bool
pop_as_bool(m) ==
    LET p == pop(m)
    IN  IF ~p.res.ok THEN [m |-> p.m, res |-> p.res, bool |-> FALSE]
        ELSE IF ~is_numeric(p.value)
        THEN [m |-> p.m, res |-> script_error(p.m, "Expected boolean value."),
              bool |-> FALSE]
        ELSE [m |-> p.m, res |-> Ok, bool |-> get_bool_val(p.value)]

\* jump_if_match, and the rest of the loop body
jump_if_match(expected_value) ==
    LET m0 == Fetch(Begin)
        found_value == pop_as_bool(m0)
        f == Top(found_value.m)
        absolute == absolute_index(f.pc, Cur.rel)
    IN  IF ~found_value.res.ok
        THEN Complete(found_value.m, found_value.res)
        ELSE IF found_value.bool # expected_value
        THEN Complete(found_value.m, Ok)
        ELSE \E checks \in JumpBuilds(absolute) :
                 IF checks THEN Commit(Panic(found_value.m))
                 ELSE Complete(SetTop(found_value.m,
                                      [f EXCEPT !.pc = JumpResume(absolute)]),
                               Ok)

\* Op::JumpIfZero
JumpIfZero ==
    /\ AtOp("JumpIfZero")
    /\ jump_if_match(FALSE)

\* Op::JumpIfNotZero
JumpIfNotZero ==
    /\ AtOp("JumpIfNotZero")
    /\ jump_if_match(TRUE)

RECURSIVE HashInput(_, _)
\* Hash for Value: what the value feeds to the hasher. A reference feeds
\* the content of its cell; a token feeds its location and its content.
HashInput(h, value) ==
    IF value.t \in {"Vec", "HashMap", "DataObject", "ByteBuffer", "Code"}
    THEN LET items == h[value.n].items
             Feed[i \in 0..Len(items)] ==
                 IF i = 0 THEN <<>>
                 ELSE Feed[i - 1] \o HashInput(h, items[i])
         IN  <<[t |-> value.t, n |-> Len(items),
                text |-> h[value.n].definition,
                location |-> NoLoc]>> \o Feed[Len(items)]
    ELSE <<[t |-> value.t, n |-> value.n,
            text |-> IF value.t = "String" THEN ToText(value.str)
                     ELSE value.str.text,
            location |-> IF value.t \in {"TokenNumber", "TokenString",
                                         "TokenWord"}
                         THEN value.str.location ELSE NoLoc]>>

RECURSIVE eq(_, _, _, _)
\* PartialEq for Value: a == b, a in heap g and b in heap h. Numbers are
\* compared after conversion, then stringable values by their strings, then
\* values of one variant by content. A number token is numeric and is none
\* of float, int and bool, so it is equal to no number token.
eq(g, a, h, b) ==
    LET ItemsEq(x, y) ==
            /\ Len(x) = Len(y)
            /\ \A i \in 1..Len(x) : eq(g, x[i], h, y[i])
        \* PartialEq for ValueHash: every key of self is a key of other
        \* (found by its hash, then by ==) and other's value for it == the
        \* value of self.
        HashEq(x, y) ==
            \A i \in 1..(Len(x) \div 2) :
                \E j \in 1..(Len(y) \div 2) :
                    /\ HashInput(g, x[2 * i - 1]) = HashInput(h, y[2 * j - 1])
                    /\ eq(g, x[2 * i - 1], h, y[2 * j - 1])
                    /\ eq(h, y[2 * j], g, x[2 * i])
    IN  IF a.t = "None" /\ b.t = "None" THEN TRUE
        ELSE IF is_numeric(a) /\ is_numeric(b)
        THEN IF "Float" \in {a.t, b.t}
             THEN FloatEq(get_float_val(a), get_float_val(b))
             ELSE IF "Int" \in {a.t, b.t}
             THEN get_int_val(a) = get_int_val(b)
             ELSE IF "Bool" \in {a.t, b.t}
             THEN get_bool_val(a) = get_bool_val(b)
             ELSE FALSE
        ELSE IF is_stringable(a) /\ is_stringable(b)
        THEN get_string_val(a) = get_string_val(b)
        ELSE IF a.t # b.t THEN FALSE
        ELSE CASE a.t \in {"Vec", "Code"} ->
                      ItemsEq(g[a.n].items, h[b.n].items)
               \* PartialEq for DataObject: the names of the definitions,
               \* then other's field == the field for every field of self
               [] a.t = "DataObject" ->
                      /\ g[a.n].definition = h[b.n].definition
                      /\ \A i \in 1..Len(g[a.n].items) :
                             /\ i <= Len(h[b.n].items)
                             /\ eq(g, g[a.n].items[i], h, h[b.n].items[i])
               [] a.t = "HashMap" -> HashEq(g[a.n].items, h[b.n].items)
               [] a.t = "ByteBuffer" ->
                      /\ g[a.n].items = h[b.n].items
                      /\ g[a.n].position = h[b.n].position
               [] OTHER -> FALSE

\* InterpreterStack::pop_as_hash_map
pop_as_hash_map(m) ==
    LET p == pop(m)
    IN  IF ~p.res.ok THEN [m |-> p.m, res |-> p.res, value |-> NoneValue]
        ELSE IF p.value.t # "HashMap"
        THEN [m |-> p.m, res |-> script_error(p.m, "Expected a hash map."),
              value |-> NoneValue]
        ELSE [m |-> p.m, res |-> Ok, value |-> p.value]

\* word_hash_compare: a b -- boolean, the boolean is a == b
word_hash_compare(m) ==
    LET b == pop_as_hash_map(m)
        a == pop_as_hash_map(b.m)
    IN  IF ~b.res.ok THEN Outcome(b.m, b.res, FALSE)
        ELSE IF ~a.res.ok THEN Outcome(a.m, a.res, FALSE)
        ELSE Outcome(push(a.m, BoolValue(eq(a.m.heap, a.value,
                                            a.m.heap, b.value))),
                     Ok, FALSE)

----------------------------------------------------------------------------
(* runtime/interpreter/sorth_interpreter.rs: the execution of words *)

\* format!("{}", n) of an i64.
IntToString(n) == IF n >= 0 THEN ToString(n) ELSE "-" \o ToString(-n)

\* word_pick (stack_words.rs), registered under no name: the value at index
\* is removed from the stack and pushed.
word_pick(m) ==
    LET index == pop_as_int(m)
        count == Len(index.m.stack)
        picked == pick(index.m, index.n)
    IN  IF ~index.res.ok THEN Outcome(index.m, index.res, FALSE)
        ELSE IF index.n < 0 \/ index.n >= count
        THEN Outcome(index.m,
                     script_error(index.m,
                         "Index " \o IntToString(index.n)
                         \o " out of range of stack size "
                         \o IntToString(count) \o "."),
                     FALSE)
        ELSE Outcome(push(picked.m, picked.value), Ok, FALSE)

\* The closure registered as pick by register_stack_words: the value n
\* places below the top is cloned and pushed.
pick_word(m) ==
    LET n == pop_as_int(m)
        len == Len(n.m.stack)
    IN  IF ~n.res.ok THEN Outcome(n.m, n.res, FALSE)
        ELSE IF n.n < 0 \/ n.n >= len
        THEN Outcome(n.m,
                     script_error(n.m,
                         "pick: index " \o IntToString(n.n)
                         \o " out of range " \o IntToString(len)),
                     FALSE)
        ELSE Outcome(push(n.m, clone(n.m.stack[len - n.n])), Ok, FALSE)

\* The handler of the native word registered under name.
NativeWord(m, name) ==
    CASE name = "/" -> word_divide(m)
      [] name = "mod" -> word_mod(m, FALSE)
      [] name = "/mod" -> word_mod(m, TRUE)
      [] name = "*/" -> word_mul_div(m, FALSE)
      [] name = "*/mod" -> word_mul_div(m, TRUE)
      [] name = "-" -> word_subtract(m)
      [] name = "*" -> word_multiply(m)
      [] name = "throw" -> word_throw(m)
      [] name = "dup" -> word_dup(m)
      [] name = "swap" -> word_swap(m)
      [] name = "[].size@" -> word_array_size(m)
      [] name = "[].push_back!" -> word_push_back(m)
      [] name = "[].new" -> word_array_new(m)
      [] name = "[]@" -> word_array_read_index(m)
      [] name = "[]!" -> word_array_write_index(m)
      [] name = "[].delete" -> word_array_delete(m)
      [] name = "{}.=" -> word_hash_compare(m)
      [] name = "pick" -> pick_word(m)
      [] OTHER -> Outcome(m, Ok, FALSE)

\* execute_word_handler up to the call of the handler.
EnterHandler(m, location, info) ==
    [m EXCEPT !.current_location = location,
              !.call_stack = Append(@, <<info.name, location>>)]

\* execute_word_handler after the handler returned.
LeaveHandler(m) == [m EXCEPT !.call_stack = Front(@)]

\* ScriptFunction::call up to the return of execute_code: a Managed word
\* marks a context, then execute_code starts on the word's code.
CallScriptFunction(m, handler) ==
    LET m1 == IF handler.context = "Managed" THEN mark_context(m) ELSE m
    IN  [m1 EXCEPT !.frames =
            Append(@, NewFrame(m1, handler.name, handler.code,
                               handler.context))]

\* ScriptFunction::call after execute_code returned.
LeaveScriptFunction(m, context) ==
    IF context = "Managed" THEN release_context(m) ELSE m

\* Op::Execute with a String operand: execute_value, execute_word_named,
\* execute_word and execute_word_handler.
Execute ==
    /\ AtOp("Execute")
    /\ LET m0 == Fetch(Begin)
           location == IF m0.current_location # NoLoc
                       THEN m0.current_location ELSE Here
           word == try_get(m0.dictionary, Cur.name)
           info == word_handler_info(m0, word.handler_index)
           m1 == EnterHandler(m0, location, info)
           native == NativeWord(m1, info.handler.name)
       IN  IF ~DictHas(m0.dictionary, Cur.name)
           THEN Complete(m0, script_error(m0, WordNotFound(Cur.name)))
           ELSE IF ~(word.handler_index < ListLen(m0.word_handlers))
           THEN Complete(m0, script_error(m0, HandlerNotFound(Cur.name)))
           ELSE IF info.handler.kind = "scripted"
           THEN Commit(CallScriptFunction(m1, info.handler))
           ELSE IF info.handler.kind = "native"
           THEN IF native.panic
                THEN Commit(Panic(native.m))
                ELSE Complete(LeaveHandler(native.m), native.res)
           ELSE IF info.handler.kind = "constant"
           THEN Complete(LeaveHandler(
                             push_constant_value(m1, info.handler.constant)),
                         Ok)
           ELSE Complete(LeaveHandler(push(m1, IntValue(info.handler.index))),
                         Ok)

\* Op::PushConstantValue
PushConstantValue ==
    /\ AtOp("PushConstantValue")
    /\ Complete(push_constant_value(Fetch(Begin), Cur.value), Ok)

\* define_constant, for a stringable name: the popped value is captured by
\* the handler of the new word.
define_constant(m, name) ==
    LET constant == pop(m)
    IN  IF ~constant.res.ok THEN [m |-> constant.m, res |-> constant.res]
        ELSE [m |-> add_word(constant.m, name,
                             [kind |-> "constant", name |-> name,
                              constant |-> constant.value]),
              res |-> Ok]

\* Op::DefConstant
DefConstant ==
    /\ AtOp("DefConstant")
    /\ LET defined == define_constant(Fetch(Begin), Cur.name)
       IN  Complete(defined.m, defined.res)

\* The end of the while loop: cleanup_contexts(self, contexts, true)?; Ok(())
Finish ==
    /\ status = "running"
    /\ Top(M).mode = "run"
    /\ ~UsizeLt(Top(M).pc, Len(Top(M).code))
    /\ LET f == Top(M)
           m0 == SetTop(Begin, [f EXCEPT !.open_at_end = f.unreleased])
           cleaned == cleanup_contexts(m0, f.contexts, TRUE)
       IN  IF cleaned.m.status = "panicked"
           THEN Commit(cleaned.m)
           ELSE Commit(Returning(Raise(cleaned.m, cleaned.res,
                                       Len(frames) - 1),
                                 cleaned.res, "end"))

\* execute_code returns to its caller: to the host, or to the ScriptFunction
\* and execute_word_handler that called it, whose Execute instruction then
\* completes with the result.
Return ==
    /\ status = "running"
    /\ Top(M).mode = "ret"
    /\ LET f == Top(M)
           m0 == [Begin EXCEPT !.frames = Front(@)]
           m1 == LeaveScriptFunction(m0, f.context)
       IN  IF Len(frames) = 1
           THEN Commit([m0 EXCEPT !.status = "done", !.result = f.res])
           ELSE IF m1.status = "panicked"
           THEN Commit(m1)
           ELSE \E checks \in Builds(m1, f.res) :
                    Commit(AfterInstruction(LeaveHandler(m1), f.res, checks))

----------------------------------------------------------------------------
(* The host: main.rs and the native callers of the interpreter *)

\* The instructions of the programs the host runs.  Instructions inserted by
\* the op.* words carry no location; an Execute compiled from a word token
\* carries the token's.  A catch label is a forward reference.
Alphabet ==
    { Instruction("MarkContext", "", 0, FALSE),
      Instruction("ReleaseContext", "", 0, FALSE),
      Instruction("DefVariable", "x", 0, FALSE),
      Instruction("MarkCatch", "", 2, FALSE),
      Instruction("UnmarkCatch", "", 0, FALSE),
      Instruction("Execute", "nope", 0, FALSE),
      Instruction("Execute", "nope", 0, TRUE),
      Instruction("Execute", "w", 0, TRUE) }

Programs == UNION {[1..n -> Alphabet] : n \in 1..MaxCodeLen}

\* The bodies of the scripted word w.
WordBodies ==
    { <<Instruction("Execute", "nope", 0, TRUE)>>,
      <<Instruction("DefVariable", "x", 0, FALSE)>>,
      <<Instruction("MarkContext", "", 0, FALSE)>>,
      <<Instruction("ReleaseContext", "", 0, FALSE)>>,
      <<Instruction("MarkContext", "", 0, FALSE),
        Instruction("ReleaseContext", "", 0, FALSE)>>,
      <<Instruction("MarkCatch", "", 2, FALSE),
        Instruction("Execute", "nope", 0, TRUE)>> }

\* SorthInterpreter::new
Init ==
    /\ dictionary = DictNew
    /\ word_handlers = ListNew
    /\ data_definitions = ListNew
    /\ variables = ListNew
    /\ stack = <<>>
    /\ call_stack = <<>>
    /\ current_location = NoLoc
    /\ frames = <<>>
    /\ status = "host"
    /\ result = Ok
    /\ heap = <<>>
    /\ constructors = <<>>
    /\ history = <<>>
    /\ event = NoEvent

\* word_end_word: the host defines the scripted word w.
AddWord ==
    /\ status = "host"
    /\ ~DictHas(dictionary, "w")
    /\ \E code \in WordBodies, context \in {"Managed", "Manual"} :
           Commit(add_word(Begin, "w",
                           [kind |-> "scripted", name |-> "w",
                            context |-> context, code |-> code]))

\* interpreter.mark_context() called by the host (main.rs)
HostMarkContext ==
    /\ status = "host"
    /\ Len(dictionary) <= MaxHostMarks
    /\ Commit(mark_context(Begin))

\* interpreter.release_context() called by the host
HostReleaseContext ==
    /\ status = "host"
    /\ Commit([release_context(Begin) EXCEPT
                  !.event.kind = "host_release",
                  !.event.mark.names = DOMAIN Last(dictionary)])

\* The host calls execute_code("top", code).
Start ==
    /\ status = "host"
    /\ \E code \in Programs :
           Commit([Begin EXCEPT !.status = "running",
                                !.frames = <<NewFrame(M, "top", code, "None")>>])

Next ==
    \/ AddWord
    \/ HostMarkContext
    \/ HostReleaseContext
    \/ Start
    \/ MarkContext
    \/ ReleaseContext
    \/ DefVariable
    \/ MarkCatch
    \/ UnmarkCatch
    \/ Execute
    \/ Finish
    \/ Return

Spec == Init /\ [][Next]_vars

\* The operands of the arithmetic programs.
ArithValues == {-3, 0, 2}

DivisionWords == {"/", "mod", "/mod", "*/", "*/mod"}

\* The number of operands the word takes.
Arity(word) == IF word \in {"*/", "*/mod"} THEN 3 ELSE 2

\* push the operands, execute the word: bare, and inside try ... catch.
ArithPrograms ==
    LET Push(n) == Instruction("PushConstantValue", "", n, FALSE)
        Body(word, a, b, c) ==
            (IF Arity(word) = 3 THEN <<Push(c)>> ELSE <<>>)
            \o <<Push(a), Push(b), Instruction("Execute", word, 0, TRUE)>>
        Bodies == {Body(word, a, b, c) :
                       word \in DivisionWords, a \in ArithValues,
                       b \in ArithValues, c \in {2}}
    IN  Bodies \cup
        {<<Instruction("MarkCatch", "", Len(body) + 2, FALSE)>> \o body
             \o <<Instruction("UnmarkCatch", "", 0, FALSE)>> : body \in Bodies}

RECURSIVE RegisterWords(_, _)
\* register_base_words, for the words of names
RegisterWords(m, names) ==
    IF names = <<>> THEN m
    ELSE RegisterWords(add_word(m, Head(names),
                                [kind |-> "native", name |-> Head(names)]),
                       Tail(names))

\* A new interpreter with the arithmetic words registered, about to run
\* one of the arithmetic programs.
InitArith ==
    \E code \in ArithPrograms :
        LET m0 == [dictionary |-> DictNew, word_handlers |-> ListNew,
                   data_definitions |-> ListNew, variables |-> ListNew,
                   stack |-> <<>>, call_stack |-> <<>>,
                   current_location |-> NoLoc, frames |-> <<>>,
                   status |-> "running", result |-> Ok, heap |-> <<>>,
                   constructors |-> <<>>, history |-> <<>>,
                   event |-> NoEvent]
            m1 == RegisterWords(m0, <<"*/", "*/mod", "mod", "/mod", "/">>)
            m2 == [m1 EXCEPT !.frames = <<NewFrame(m1, "top", code, "None")>>]
        IN  /\ dictionary = m2.dictionary
            /\ word_handlers = m2.word_handlers
            /\ data_definitions = m2.data_definitions
            /\ variables = m2.variables
            /\ stack = m2.stack
            /\ call_stack = m2.call_stack
            /\ current_location = m2.current_location
            /\ frames = m2.frames
            /\ status = m2.status
            /\ result = m2.result
            /\ heap = m2.heap
            /\ constructors = m2.constructors
            /\ history = m2.history
            /\ event = m2.event

NextArith ==
    \/ PushConstantValue
    \/ MarkCatch
    \/ UnmarkCatch
    \/ Execute
    \/ Finish
    \/ Return

SpecArith == InitArith /\ [][NextArith]_vars

----------------------------------------------------------------------------
(* Programs over the native words *)

\* SorthInterpreter::new
NewInterpreter ==
    [dictionary |-> DictNew, word_handlers |-> ListNew,
     data_definitions |-> ListNew, variables |-> ListNew,
     stack |-> <<>>, call_stack |-> <<>>, current_location |-> NoLoc,
     frames |-> <<>>, status |-> "host", result |-> Ok, heap |-> <<>>,
     constructors |-> <<>>, history |-> <<>>,
                   event |-> NoEvent]

\* The interpreter is m.
StateIs(m) ==
    /\ dictionary = m.dictionary
    /\ word_handlers = m.word_handlers
    /\ data_definitions = m.data_definitions
    /\ variables = m.variables
    /\ stack = m.stack
    /\ call_stack = m.call_stack
    /\ current_location = m.current_location
    /\ frames = m.frames
    /\ status = m.status
    /\ result = m.result
    /\ heap = m.heap
    /\ constructors = m.constructors
    /\ history = m.history
    /\ event = m.event

\* A new interpreter with the words of names registered and heap h holding
\* the constants of code, entering execute_code on code.
Running(names, h, code) ==
    LET m1 == RegisterWords([NewInterpreter EXCEPT !.heap = h], names)
    IN  [m1 EXCEPT !.status = "running",
                   !.frames = <<NewFrame(m1, "top", code, "None")>>]

\* body, and body inside try ... catch (the catch label is the index after
\* the UnmarkCatch).
WithAndWithoutTry(bodies) ==
    bodies \cup
    {<<Instruction("MarkCatch", "", Len(body) + 2, FALSE)>> \o body
         \o <<Instruction("UnmarkCatch", "", 0, FALSE)>> : body \in bodies}

\* The array words that take an index.
ArrayIndexWords == {"[]@", "[]!", "[].delete"}

\* value? index size [].new word: the word applied to a new array of every
\* size up to MaxArrayLen at every index from -1 to one past its length.
ArrayPrograms ==
    WithAndWithoutTry(
        {(IF word = "[]!" THEN <<PushValue(IntValue(7))>> ELSE <<>>)
         \o <<PushValue(IntValue(index)), PushValue(IntValue(size)),
              Instruction("Execute", "[].new", 0, TRUE),
              Instruction("Execute", word, 0, TRUE)>> :
            word \in ArrayIndexWords, size \in 0..MaxArrayLen,
            index \in -1..(MaxArrayLen + 1)})

InitArray ==
    \E code \in ArrayPrograms :
        StateIs(Running(<<"[].new", "[]!", "[]@", "[].delete">>, <<>>, code))

NextArray ==
    \/ PushConstantValue
    \/ MarkCatch
    \/ UnmarkCatch
    \/ Execute
    \/ Finish
    \/ Return

SpecArray == InitArray /\ [][NextArray]_vars

\* The arithmetic words applied to operands of mixed types.
TypeWords == {"-", "*", "/", "mod"}

\* Operands: a string that is not a number, an integer, and None.
TypeOperands == {StringValue(PlainString("abc")), IntValue(2), NoneValue}

TypePrograms ==
    WithAndWithoutTry(
        {<<PushValue(a), PushValue(b), Instruction("Execute", word, 0, TRUE)>> :
            word \in TypeWords, a \in TypeOperands, b \in TypeOperands})

InitType ==
    \E code \in TypePrograms :
        StateIs(Running(<<"mod", "-", "*", "/">>, <<>>, code))

NextType ==
    \/ PushConstantValue
    \/ MarkCatch
    \/ UnmarkCatch
    \/ Execute
    \/ Finish
    \/ Return

SpecType == InitType /\ [][NextType]_vars

\* The messages thrown: strings, and values throw converts to a string.
ThrowMessages ==
    {StringValue(PlainString("boom")), StringValue(PlainString("")),
     IntValue(5), NoneValue}

\* message throw, with and without a source location, bare and inside
\* try ... catch; and the catch block throwing again what it caught, inside
\* an outer try ... catch.
ThrowPrograms ==
    LET Throws == {<<PushValue(message),
                     Instruction("Execute", "throw", 0, located)>> :
                       message \in ThrowMessages, located \in BOOLEAN}
    IN  WithAndWithoutTry(Throws) \cup
        {<<Instruction("MarkCatch", "", 7, FALSE),
           Instruction("MarkCatch", "", 4, FALSE)>> \o body
         \o <<Instruction("UnmarkCatch", "", 0, FALSE),
              Instruction("Execute", "throw", 0, located),
              Instruction("UnmarkCatch", "", 0, FALSE)>> :
            body \in Throws, located \in BOOLEAN}

InitThrow ==
    \E code \in ThrowPrograms : StateIs(Running(<<"throw">>, <<>>, code))

NextThrow ==
    \/ PushConstantValue
    \/ MarkCatch
    \/ Execute
    \/ Finish
    \/ Return

SpecThrow == InitThrow /\ [][NextThrow]_vars

\* The names the host defines words under.
WordNames == {"w", "x"}

\* The handler of the k-th script word body registered under name.
ScriptedHandler(name, k) ==
    [kind |-> "scripted", name |-> name, context |-> "Managed",
     code |-> <<Instruction("PushConstantValue", "", k, FALSE)>>]

\* interpreter.add_word(..): a word is defined under one of the names, in
\* the newest context; the name may already be defined.
DefineWord ==
    /\ status = "host"
    /\ ListLen(word_handlers) < MaxWords
    /\ \E name \in WordNames, k \in 1..2 :
           Commit([add_word(Begin, name, ScriptedHandler(name, k)) EXCEPT
                      !.event.kind = "add",
                      !.event.level = k,
                      !.event.mark.names = {name}])

NextWords ==
    \/ DefineWord
    \/ HostMarkContext
    \/ HostReleaseContext

SpecWords == Init /\ [][NextWords]_vars

\* The relative indices of the jumps.
JumpOffsets == -MaxJump..MaxJump

\* Every block of one to MaxJump + 1 instructions, each a Jump or a
\* JumpTarget, with and without a location.
JumpPrograms ==
    LET Ops == {Instruction("Jump", "", rel, located) :
                    rel \in JumpOffsets, located \in BOOLEAN}
               \cup {Instruction("JumpTarget", "", 0, FALSE)}
    IN  UNION {[1..n -> Ops] : n \in 1..(MaxJump + 1)}

InitJump == \E code \in JumpPrograms : StateIs(Running(<<>>, <<>>, code))

NextJump ==
    \/ Jump
    \/ JumpTarget
    \/ Finish
    \/ Return

SpecJump == InitJump /\ [][NextJump]_vars

\* The values tested by the conditional jumps: none, integers, booleans,
\* floats, number tokens and strings.
TestValues ==
    {NoneValue, IntValue(0), IntValue(3), BoolValue(TRUE), BoolValue(FALSE),
     FloatValue(0), FloatValue(2), NaNValue,
     TokenValue("TokenNumber", LocationOf("script", 1), 0, "0"),
     TokenValue("TokenNumber", LocationOf("script", 1), 7, "7"),
     StringValue(PlainString("abc"))}

\* Every block of one to MaxJump instructions, each a JumpIfZero, a
\* JumpIfNotZero or a JumpTarget.
JumpIfPrograms ==
    LET Ops == {Instruction(op, "", rel, FALSE) :
                    op \in {"JumpIfZero", "JumpIfNotZero"},
                    rel \in JumpOffsets}
               \cup {Instruction("JumpTarget", "", 0, FALSE)}
    IN  UNION {[1..n -> Ops] : n \in 1..MaxJump}

\* The stack is empty, or holds a test value, alone or above an integer.
InitJumpIf ==
    \E code \in JumpIfPrograms,
       values \in {<<>>} \cup {<<value>> : value \in TestValues}
                  \cup {<<IntValue(5), value>> : value \in TestValues} :
        StateIs([Running(<<>>, <<>>, code) EXCEPT !.stack = values])

NextJumpIf ==
    \/ JumpIfZero
    \/ JumpIfNotZero
    \/ JumpTarget
    \/ Finish
    \/ Return

SpecJumpIf == InitJumpIf /\ [][NextJumpIf]_vars

\* Every block of one to MaxLoopCode instructions, each a loop instruction
\* or a JumpTarget; the exit of a loop is past its MarkLoopExit.
LoopPrograms ==
    LET Ops == {Instruction("MarkLoopExit", "", rel, FALSE) :
                    rel \in 1..MaxJump}
               \cup {Instruction(op, "", 0, FALSE) :
                         op \in {"UnmarkLoopExit", "JumpLoopStart",
                                 "JumpLoopExit", "JumpTarget"}}
    IN  UNION {[1..n -> Ops] : n \in 1..MaxLoopCode}

InitLoop == \E code \in LoopPrograms : StateIs(Running(<<>>, <<>>, code))

NextLoop ==
    \/ MarkLoopExit
    \/ UnmarkLoopExit
    \/ JumpLoopStart
    \/ JumpLoopExit
    \/ JumpTarget
    \/ Finish
    \/ Return

SpecLoop == InitLoop /\ [][NextLoop]_vars

\* The elements of the array literals.
ArrayElements == {1, 2}

\* The array literals: every array of up to MaxArrayLen elements.
ArrayLiterals ==
    UNION {[1..n -> {IntValue(e) : e \in ArrayElements}] :
               n \in 0..MaxArrayLen}

\* literal dup (swap)? value swap [].push_back! [].size@: the value is
\* appended through one of the two values dup left, the size is read through
\* the other. The literal is cell 1 of the heap.
DupPrograms ==
    {<<PushValue(VecValue(1)), Instruction("Execute", "dup", 0, TRUE)>>
     \o (IF swapped THEN <<Instruction("Execute", "swap", 0, TRUE)>>
         ELSE <<>>)
     \o <<PushValue(IntValue(value)),
          Instruction("Execute", "swap", 0, TRUE),
          Instruction("Execute", "[].push_back!", 0, TRUE),
          Instruction("Execute", "[].size@", 0, TRUE)>> :
        swapped \in BOOLEAN, value \in {0, 7}}

InitDup ==
    \E code \in DupPrograms, literal \in ArrayLiterals :
        StateIs(Running(<<"dup", "swap", "[].size@", "[].push_back!">>,
                        <<Cell("Vec", literal)>>, code))

NextDup ==
    \/ PushConstantValue
    \/ Execute
    \/ Finish
    \/ Return

SpecDup == InitDup /\ [][NextDup]_vars

\* The hash maps compared: every map from some of the keys 1 and 2 to the
\* values 1 and 2, as key, value, key, value, ...
HashLiterals ==
    UNION {{<<>>}, {<<IntValue(k), IntValue(v)>> : k \in 1..2, v \in 1..2},
           {<<IntValue(1), IntValue(v), IntValue(2), IntValue(w)>> :
                v \in 1..2, w \in 1..2}}

\* a b {}.= with a in cell 1 and b in cell 2
InitHash ==
    \E a \in HashLiterals, b \in HashLiterals :
        StateIs([Running(<<"{}.=">>,
                         <<Cell("HashMap", a), Cell("HashMap", b)>>,
                         <<Instruction("Execute", "{}.=", 0, TRUE)>>)
                     EXCEPT !.stack = <<RefValue("HashMap", 1),
                                        RefValue("HashMap", 2)>>])

NextHash ==
    \/ Execute
    \/ Finish
    \/ Return

SpecHash == InitHash /\ [][NextHash]_vars

----------------------------------------------------------------------------
(* runtime/data_structures/byte_buffer.rs: strings in a byte buffer *)

\* The UTF-8 encodings of the characters of the strings: NUL, A and e with
\* an acute accent (two bytes).
Characters == {<<0>>, <<65>>, <<195, 169>>}

\* value.as_bytes() of every string of up to MaxStringChars characters.
RECURSIVE StringsOf(_)
StringsOf(n) ==
    IF n = 0 THEN {<<>>}
    ELSE StringsOf(n - 1)
         \cup {str \o c : str \in StringsOf(n - 1), c \in Characters}

\* The first n items of seq (all of them when it has fewer).
Take(seq, n) == SubSeq(seq, 1, IF n < Len(seq) THEN n ELSE Len(seq))

\* bytes.iter().position(|&byte| byte == 0).unwrap_or(max_size), then
\* &bytes[0..end]
UpToZero(bytes) ==
    LET zeros == {i \in 1..Len(bytes) : bytes[i] = 0}
    IN  IF zeros = {} THEN bytes
        ELSE SubSeq(bytes, 1, (CHOOSE i \in zeros :
                                   \A j \in zeros : i <= j) - 1)

RECURSIVE from_utf8_lossy(_)
\* String::from_utf8_lossy on the bytes of Characters: a lead byte without
\* its continuation byte, and a continuation byte without a lead, become
\* U+FFFD (EF BF BD).
from_utf8_lossy(bytes) ==
    IF bytes = <<>> THEN <<>>
    ELSE IF Head(bytes) = 195 /\ Len(bytes) >= 2 /\ bytes[2] = 169
    THEN <<195, 169>> \o from_utf8_lossy(Tail(Tail(bytes)))
    ELSE IF Head(bytes) \in {195, 169}
    THEN <<239, 191, 189>> \o from_utf8_lossy(Tail(bytes))
    ELSE <<Head(bytes)>> \o from_utf8_lossy(Tail(bytes))

\* ByteBuffer::set_position: a position past the end panics.
set_position(m, address, position) ==
    IF position > Len(m.heap[address].items) THEN Panic(m)
    ELSE [m EXCEPT !.heap[address].position = position]

\* ByteBuffer::increment_position
increment_position(m, address, increment) ==
    set_position(m, address, m.heap[address].position + increment)

\* ByteBuffer::write_string
write_string(m, address, max_size, value) ==
    LET write_bytes == IF Len(value) < max_size THEN Len(value) ELSE max_size
        position == m.heap[address].position
        m1 == increment_position(m, address, max_size)
    IN  IF m1.status = "panicked" THEN m1
        ELSE [m1 EXCEPT !.heap[address].items =
                 [i \in 1..Len(@) |->
                     IF i > position /\ i <= position + write_bytes
                     THEN IntValue(value[i - position])
                     ELSE IF i > position /\ i <= position + max_size
                     THEN IntValue(0)
                     ELSE @[i]]]

\* ByteBuffer::read_string: the interpreter after the read, and the bytes
\* of the String returned.
read_string(m, address, max_size) ==
    LET position == m.heap[address].position
        m1 == increment_position(m, address, max_size)
        bytes == [i \in 1..max_size |->
                     m.heap[address].items[position + i].n]
    IN  IF m1.status = "panicked" THEN [m |-> m1, string |-> <<>>]
        ELSE [m |-> m1, string |-> from_utf8_lossy(UpToZero(bytes))]

\* A buffer of MaxBufferLen bytes (cell 1) with its cursor at some position,
\* a string s (cell 2, its bytes) and a slot size n (on the stack).
InitString ==
    \E value \in StringsOf(MaxStringChars), fill \in {0, 7},
       position \in 0..1, max_size \in 0..MaxBufferLen :
        StateIs([NewInterpreter EXCEPT
                    !.heap = <<[Cell("ByteBuffer",
                                     [i \in 1..MaxBufferLen |->
                                         IntValue(fill)])
                                   EXCEPT !.position = position],
                               Cell("String",
                                    [i \in 1..Len(value) |->
                                        IntValue(value[i])])>>,
                    !.stack = <<IntValue(max_size)>>])

\* buffer.write_string(n, s)
WriteString ==
    /\ status = "host"
    /\ event.kind = "none"
    /\ Len(heap) = 2
    /\ Commit([write_string(Begin, 1, stack[1].n,
                            [i \in 1..Len(heap[2].items) |->
                                heap[2].items[i].n])
                  EXCEPT !.event.kind = "write",
                         !.event.target = heap[1].position])

\* buffer.set_position(start): back to where the string was written
Rewind ==
    /\ status = "host"
    /\ event.kind = "write"
    /\ Commit([set_position(Begin, 1, event.target)
                  EXCEPT !.event.kind = "rewind"])

\* buffer.read_string(n): the String returned is kept in a new cell.
ReadString ==
    /\ status = "host"
    /\ event.kind = "rewind"
    /\ LET read == read_string(Begin, 1, stack[1].n)
       IN  Commit([read.m EXCEPT
                      !.heap = Alloc(@, Cell("String",
                                   [i \in 1..Len(read.string) |->
                                       IntValue(read.string[i])])),
                      !.status = "done"])

NextString ==
    \/ WriteString
    \/ Rewind
    \/ ReadString

SpecString == InitString /\ [][NextString]_vars

----------------------------------------------------------------------------
(* runtime/built_ins/base_words/bytecode_words.rs: compile_until_words *)

\* CodeConstructor::new(tokens); words holds the local of the
\* compile_until_words handler running on it.
CodeConstructor(tokens) ==
    [tokens |-> tokens, current |-> 0, code |-> <<>>, words |-> <<>>]

\* is_one_of_words matching the text of any token
is_one_of_words_any_token(token, words) ==
    \E i \in 1..Len(words) : token.str.text = words[i]

\* is_one_of_words: the token is a word token and one of the words
is_one_of_words(token, words) ==
    /\ token.t = "TokenWord"
    /\ \E i \in 1..Len(words) : token.str.text = words[i]

RECURSIVE JoinWords(_)
\* word, ", " between the words
JoinWords(words) ==
    IF words = <<>> THEN ""
    ELSE IF Len(words) = 1 THEN words[1]
    ELSE words[1] \o ", " \o JoinWords(Tail(words))

\* The message of the error at the end of the token stream.
CouldNotFind(words) ==
    IF Len(words) = 1 THEN "Could not find word " \o words[1] \o "."
    ELSE "Could not find any of the words: " \o JoinWords(words) \o "."

\* construction.code.push_back(instruction)
Emit(m, instruction) ==
    [m EXCEPT !.constructors[Len(m.constructors)].code =
                  Append(@, instruction)]

\* The error of an immediate word that fails while a token is compiled.
ImmediateWordError == "The immediate word failed."

\* process_token: the outcomes of compiling one token. A number or a string
\* emits PushConstantValue; a word that is no immediate word emits Execute;
\* an immediate word runs its handler now, which may consume further tokens
\* and succeeds or fails.
process_token(m, token) ==
    LET top == m.constructors[Len(m.constructors)]
        immediate ==
            /\ token.t = "TokenWord"
            /\ DictHas(m.dictionary, token.str.text)
            /\ word_handler_info(m,
                   try_get(m.dictionary, token.str.text).handler_index)
                       .handler.kind = "immediate"
    IN  IF token.t \in {"TokenNumber", "TokenString"}
        THEN {[m |-> Emit(m, PushValue(IF token.t = "TokenNumber"
                                       THEN IntValue(token.n)
                                       ELSE StringValue(
                                           PlainString(token.str.text)))),
               res |-> Ok]}
        ELSE IF ~immediate
        THEN {[m |-> Emit(m, Instruction("Execute", token.str.text, 0, TRUE)),
               res |-> Ok]}
        ELSE {[m |-> [m EXCEPT !.constructors[Len(m.constructors)].current =
                                   @ + consumed],
               res |-> Ok] :
                  consumed \in {k \in 0..1 :
                                    top.current + k <= Len(top.tokens)}}
             \cup {[m |-> m,
                    res |-> script_error(m, ImmediateWordError)]}

RECURSIVE PopWords(_, _)
\* for _ in 0..word_count { words.push(interpreter.pop_as_string()?); }
PopWords(m, word_count) ==
    IF word_count = 0 THEN [m |-> m, res |-> Ok, words |-> <<>>]
    ELSE LET first == pop_as_string(m)
             rest == PopWords(first.m, word_count - 1)
         IN  IF ~first.res.ok
             THEN [m |-> first.m, res |-> first.res, words |-> <<>>]
             ELSE [m |-> rest.m, res |-> rest.res,
                   words |-> <<first.string>> \o rest.words]

\* word_code_compile_until_words up to its loop: the word count and the
\* words are popped.
CompileUntilStart ==
    /\ status = "host"
    /\ constructors # <<>>
    /\ LET word_count == pop_as_usize(Begin)
           popped == PopWords(word_count.m, word_count.n)
       IN  IF ~word_count.res.ok
           THEN Commit([word_count.m EXCEPT !.status = "done",
                                            !.result = word_count.res])
           ELSE IF ~popped.res.ok
           THEN Commit([popped.m EXCEPT !.status = "done",
                                        !.result = popped.res])
           ELSE Commit([popped.m EXCEPT
                           !.status = "compiling",
                           !.constructors[Len(constructors)].words =
                               popped.words])

\* One turn of the loop of word_code_compile_until_words: the next token is
\* taken; a token that is one of the words ends the loop, any other token is
\* compiled; the end of the stream is the error.
CompileUntilStep ==
    /\ status = "compiling"
    /\ LET top == constructors[Len(constructors)]
           token == top.tokens[top.current + 1]
           m1 == [Begin EXCEPT !.constructors[Len(constructors)].current =
                                   @ + 1]
       IN  IF top.current >= Len(top.tokens)
           THEN Commit([Begin EXCEPT
                           !.status = "done",
                           !.result = script_error(Begin,
                                                   CouldNotFind(top.words))])
           ELSE IF is_one_of_words(token, top.words)
           THEN Commit([push(m1, StringValue(PlainString(token.str.text)))
                           EXCEPT !.status = "done", !.result = Ok])
           ELSE \E outcome \in process_token(m1, token) :
                    IF outcome.res.ok THEN Commit(outcome.m)
                    ELSE Commit([outcome.m EXCEPT !.status = "done",
                                                  !.result = outcome.res])

\* The tokens of the streams: the words then, else and imm (an immediate
\* word), the string "then" and the number 7.
Tokens ==
    {TokenValue("TokenWord", LocationOf("script", 1), 0, word) :
         word \in {"then", "else", "imm"}}
    \cup {TokenValue("TokenString", LocationOf("script", 1), 0, "then"),
          TokenValue("TokenNumber", LocationOf("script", 1), 7, "7")}

\* A token stream of up to MaxTokens tokens is being compiled; the stack
\* holds the words to look for and their count.
InitCompile ==
    \E n \in 0..MaxTokens :
        \E tokens \in [1..n -> Tokens],
           words \in {<<"then">>, <<"else", "then">>} :
            LET m1 == add_word(NewInterpreter, "imm",
                               [kind |-> "immediate", name |-> "imm"])
            IN  StateIs([m1 EXCEPT
                    !.constructors = <<CodeConstructor(tokens)>>,
                    !.stack = [i \in 1..Len(words) |->
                                  StringValue(PlainString(words[i]))]
                              \o <<IntValue(Len(words))>>])

NextCompile ==
    \/ CompileUntilStart
    \/ CompileUntilStep

SpecCompile == InitCompile /\ [][NextCompile]_vars

\* The construction compile_until_words works on.
Construction == constructors[Len(constructors)]

\* compile_until_words has returned after popping its words.
CompileReturned ==
    /\ status = "done"
    /\ constructors # <<>>
    /\ Construction.words # <<>>

\* A word token that is one of the words was consumed, the cursor is just
\* past it and the word is on top of the data stack.
FoundWord ==
    /\ result.ok
    /\ Construction.current \in 1..Len(Construction.tokens)
    /\ LET token == Construction.tokens[Construction.current]
       IN  /\ token.t = "TokenWord"
           /\ \E i \in 1..Len(Construction.words) :
                  token.str.text = Construction.words[i]
           /\ stack # <<>>
           /\ Last(stack) = StringValue(PlainString(token.str.text))

\* The stream was exhausted and the error names every expected word.
RanOffTheEnd ==
    /\ ~result.ok
    /\ Construction.current = Len(Construction.tokens)
    /\ result.err.error = CouldNotFind(Construction.words)

\* Compiling the last token taken failed and its error is returned.
TokenFailed ==
    /\ ~result.ok
    /\ Construction.current \in 1..Len(Construction.tokens)
    /\ result.err.error = ImmediateWordError

\* Every turn of the loop ends compile_until_words or moves the cursor on.
CompileProgress ==
    status = "compiling" =>
        \/ status' = "done"
        \/ /\ status' = "compiling"
           /\ constructors'[Len(constructors')].current > Construction.current
           /\ constructors'[Len(constructors')].current
                  <= Len(Construction.tokens)

\* C23 as stated: compile_until_words terminates, and returns either the
\* word it found, consumed, or the error of the exhausted stream naming every
\* expected word.
C23_TwoOutcomes ==
    /\ [](CompileReturned => (FoundWord \/ RanOffTheEnd))
    /\ [][CompileProgress]_vars

\* C23 amended: compile_until_words terminates with one of three outcomes:
\* the word it found and consumed is on the data stack, or the stream was
\* exhausted and the error names every expected word, or compiling a token
\* before any expected word failed and that token's error is returned.
C23_ThreeOutcomes ==
    /\ [](CompileReturned => (FoundWord \/ RanOffTheEnd \/ TokenFailed))
    /\ [][CompileProgress]_vars

\* tokens were compiled and then one of two expected words was found
C23_Witness ==
    /\ CompileReturned
    /\ FoundWord
    /\ Len(Construction.words) = 2
    /\ Construction.code # <<>>

\* The heap holding a literal of the code: cell 1 is the array literal, cell 2
\* is the array whose one element is the array of cell 1.
LiteralHeap(literal) == <<Cell("Vec", literal), Cell("Vec", <<VecValue(1)>>)>>

\* Mutate the array on top of the stack: append value to it, or, when it is
\* the nested literal, to its element 0.
MutateTop(value, nested) ==
    (IF nested
     THEN <<PushValue(IntValue(0)), Instruction("Execute", "swap", 0, TRUE),
            Instruction("Execute", "[]@", 0, TRUE)>>
     ELSE <<>>)
    \o <<PushValue(IntValue(value)), Instruction("Execute", "swap", 0, TRUE),
         Instruction("Execute", "[].push_back!", 0, TRUE)>>

\* The code of the scripted word w: it pushes the literal.
ConstantWordBody(nested) == <<PushValue(VecValue(IF nested THEN 2 ELSE 1))>>

\* w <mutate> w: the PushConstantValue of w executes twice;
\* literal DefConstant(c) c <mutate> c: the constant word executes twice.
ConstantPrograms(nested) ==
    {<<Instruction("Execute", "w", 0, TRUE),
       Instruction("Execute", "dup", 0, TRUE)>>
     \o MutateTop(value, nested)
     \o <<Instruction("Execute", "w", 0, TRUE)>> : value \in {0, 7}}
    \cup
    {ConstantWordBody(nested)
     \o <<Instruction("DefConstant", "c", 0, FALSE),
          Instruction("Execute", "c", 0, TRUE),
          Instruction("Execute", "dup", 0, TRUE)>>
     \o MutateTop(value, nested)
     \o <<Instruction("Execute", "c", 0, TRUE)>> : value \in {0, 7}}

InitConstant ==
    \E nested \in BOOLEAN, literal \in ArrayLiterals :
        \E code \in ConstantPrograms(nested) :
            LET m1 == RegisterWords(
                          [NewInterpreter EXCEPT !.heap = LiteralHeap(literal)],
                          <<"dup", "swap", "[]@", "[].push_back!">>)
                m2 == add_word(m1, "w",
                               [kind |-> "scripted", name |-> "w",
                                context |-> "Managed",
                                code |-> ConstantWordBody(nested)])
            IN  StateIs([m2 EXCEPT
                            !.status = "running",
                            !.frames = <<NewFrame(m2, "top", code, "None")>>])

NextConstant ==
    \/ PushConstantValue
    \/ DefConstant
    \/ Execute
    \/ Finish
    \/ Return

SpecConstant == InitConstant /\ [][NextConstant]_vars

----------------------------------------------------------------------------
(* deep_clone applied to values of every variant *)

\* The variants handled by reference.
MutableKinds == {"Vec", "HashMap", "DataObject", "ByteBuffer"}

\* A cell of kind with content items (for a HashMap the items are also the
\* keys: key, value, ...).
KindCell(kind, items) ==
    [Cell(kind, items) EXCEPT
        !.definition = IF kind = "DataObject" THEN "point" ELSE ""]

\* The contents of the one-level values: up to MaxArrayLen integers (pairs
\* of them for a HashMap).
FlatItems(kind) ==
    {IF kind = "HashMap" THEN literal \o literal ELSE literal :
        literal \in ArrayLiterals}

\* The values held by value: none, an integer, a string, booleans, floats
\* (0.0 / 0.0 is NaN) and the tokens the word "word" pushes.
Scalars ==
    {NoneValue, IntValue(3), StringValue(PlainString("abc")),
     BoolValue(TRUE), BoolValue(FALSE), FloatValue(2), NaNValue,
     TokenValue("TokenNumber", LocationOf("script", 1), 7, "7"),
     TokenValue("TokenString", LocationOf("script", 1), 0, "abc"),
     TokenValue("TokenWord", LocationOf("script", 1), 0, "dup")}

\* The inputs of deep_clone: a heap and a value in it. One-level values of
\* every variant; scalars; containers and ByteCodes that hold one scalar;
\* and two-level values, a container or a ByteCode that holds a reference to
\* an inner one-level value (cell 1).
CloneInputs ==
    UNION {{[heap |-> <<KindCell(kind, items)>>,
             value |-> RefValue(kind, 1)] : items \in FlatItems(kind)} :
               kind \in MutableKinds \cup {"Code"}}
    \cup
    {[heap |-> <<>>, value |-> value] : value \in Scalars}
    \cup
    {[heap |-> <<KindCell(kind, (IF kind = "HashMap"
                                 THEN <<item>> ELSE <<>>) \o <<item>>)>>,
      value |-> RefValue(kind, 1)] :
        kind \in {"Vec", "HashMap", "DataObject", "Code"}, item \in Scalars}
    \cup
    {[heap |-> <<KindCell(inner, <<IntValue(1)>>),
                KindCell(outer, (IF outer = "HashMap"
                                 THEN <<IntValue(1)>> ELSE <<>>)
                                \o <<RefValue(inner, 1)>>)>>,
      value |-> RefValue(outer, 2)] :
        inner \in MutableKinds,
        outer \in {"Vec", "HashMap", "DataObject", "Code"}}

\* The interpreter holds v alone on its data stack.
InitClone ==
    \E input \in CloneInputs :
        StateIs([NewInterpreter EXCEPT !.heap = input.heap,
                                       !.stack = <<input.value>>])

\* deep_clone is applied to v: the stack holds v and deep_clone(v).
DeepCloneValue ==
    /\ status = "host"
    /\ Len(stack) = 1
    /\ LET cloned == deep_clone(heap, stack[1])
       IN  Commit([Begin EXCEPT !.heap = cloned.heap,
                                !.stack = Append(@, cloned.value),
                                !.event.kind = "clone"])

RECURSIVE ContainerReach(_, _)
\* The cells that words can reach from value: the cell it refers to, and the
\* cells reached by reading elements, values and fields. No word reads the
\* operands of a ByteCode.
ContainerReach(h, value) ==
    IF value.t \in MutableKinds
    THEN {value.n} \cup UNION {ContainerReach(h, h[value.n].items[i]) :
                                   i \in 1..Len(h[value.n].items)}
    ELSE {}

\* One mutation of a cell: ValueVec::push_back, ValueHash::insert of a new
\* key, a field write of a DataObject, ByteBuffer::write_int of one byte.
Mutated(cell) ==
    CASE cell.kind = "Vec" -> {[cell EXCEPT !.items = Append(@, IntValue(9))]}
      [] cell.kind = "HashMap" ->
             {[cell EXCEPT !.items = @ \o <<IntValue(9), IntValue(9)>>]}
      [] cell.kind = "DataObject" ->
             {[cell EXCEPT !.items[i] = IntValue(9)] :
                  i \in 1..Len(cell.items)}
      [] cell.kind = "ByteBuffer" ->
             IF cell.position < Len(cell.items)
             THEN {[cell EXCEPT !.items[cell.position + 1] = IntValue(9),
                                !.position = @ + 1]}
             ELSE {}
      [] OTHER -> {}

\* A word mutates, through v or through the clone, a cell it can reach.
MutateThrough ==
    /\ status = "host"
    /\ Len(stack) = 2
    /\ \E i \in 1..2 :
           \E address \in ContainerReach(heap, stack[i]) :
               \E cell \in Mutated(heap[address]) :
                   Commit([Begin EXCEPT !.heap[address] = cell,
                                        !.status = "done",
                                        !.event.kind = "mutate",
                                        !.event.level = i])

NextClone ==
    \/ DeepCloneValue
    \/ MutateThrough

SpecClone == InitClone /\ [][NextClone]_vars

----------------------------------------------------------------------------
(* Properties *)

\* The innermost invocation has returned from execute_code and has not yet
\* been popped by its caller.
Returned == frames # <<>> /\ Top(M).mode = "ret"

\* C1: right after a ReleaseContext that matches a MarkContext, the variable,
\* word-handler and definition lists have the lengths they had at that
\* MarkContext and lookup finds no name it did not find then.
C1_ReleasedDefinitionsUnreachable ==
    event.kind = "release" =>
        /\ ListLen(variables) = event.mark.variables
        /\ ListLen(word_handlers) = event.mark.word_handlers
        /\ ListLen(data_definitions) = event.mark.data_definitions
        /\ FindableNames(dictionary) \subseteq event.mark.names

\* C2: when execute_code returns, with Ok or with an error, the four
\* containers have the number of frames they had when it was entered.
C2_ContextsReleasedAtReturn ==
    Returned => Depths(M) = Top(M).entry_depths

C4_UncaughtErrorReturnedAfterCleanup ==
    (Returned /\ Top(M).how = "error") =>
        /\ Top(M).res = Top(M).raised
        /\ Top(M).unreleased = 0

\* C5: an error is caught by the nearest catch frame, searching from the
\* invocation where it was raised outward through the callers, at the catch
\* index marked last there; an invocation lets an error out only when it holds
\* no catch frame, and the host gets the error only when no invocation did.
C5_NearestCatchFrameHandles ==
    [][
        /\ (event'.kind = "catch" =>
                /\ event'.pending.on
                /\ event'.level = event'.pending.level
                /\ event'.target = event'.pending.target)
        /\ ((frames' # <<>> /\ Last(frames').mode = "ret"
                            /\ ~Last(frames').res.ok) =>
                /\ event'.pending.on
                /\ event'.pending.level < Len(frames'))
        /\ ((status' = "done" /\ ~result'.ok) =>
                /\ event'.pending.on
                /\ event'.pending.level = 0)
        /\ ((Returned /\ ~Top(M).res.ok /\ status' # "panicked") =>
                IF event.pending.level = Len(frames) - 1 /\ Len(frames) > 1
                THEN /\ event'.kind = "catch"
                     /\ event'.level = Len(frames) - 1
                ELSE IF Len(frames) = 1
                THEN status' = "done" /\ result' = Top(M).res
                ELSE /\ Len(frames') = Len(frames) - 1
                     /\ Last(frames').mode = "ret"
                     /\ Last(frames').res = Top(M).res)
    ]_vars

C5_Witness ==
    /\ event.kind = "catch"
    /\ event.pending.from = 2
    /\ event.level = 1
    /\ Len(frames) = 1

\* C6: when the loop of execute_code ends with k > 0 contexts opened by the
\* invocation still unreleased, execute_code releases those k frames and
\* returns the unbalanced-context error; with k = 0 it returns Ok.
C6_UnbalancedContextsReported ==
    (Returned /\ Top(M).how = "end") =>
        IF Top(M).open_at_end > 0
        THEN /\ ~Top(M).res.ok
             /\ Top(M).res.err.error = "Unbalanced context handling detected."
             /\ Top(M).unreleased = 0
        ELSE Top(M).res.ok

\* C7: when execute_code returns, the call stack has the depth it had when
\* execute_code was entered.
C7_CallStackBalanced ==
    Returned => Len(call_stack) = Top(M).entry_calls

\* C8: the dictionary, the word-handler list, the definition list and the
\* variable list always have the same number of frames.
C8_ContainersInLockstep ==
    /\ Len(dictionary) = Len(word_handlers)
    /\ Len(word_handlers) = Len(data_definitions)
    /\ Len(data_definitions) = Len(variables)

C8_Witness ==
    /\ event.kind = "release"
    /\ Len(dictionary) >= 3
    /\ Len(variables) = Len(dictionary)

\* C9: every container always holds its root frame: release_context on a
\* container that holds only the root frame panics and removes nothing.
C9_RootFramePermanent ==
    /\ Len(dictionary) >= 1
    /\ Len(word_handlers) >= 1
    /\ Len(data_definitions) >= 1
    /\ Len(variables) >= 1

C9_Witness ==
    /\ status = "panicked"
    /\ Depths(M) = <<1, 1, 1, 1>>

\* The divisor on top of the data stack is the integer zero and the word's
\* other operands are beneath it.
ZeroDivisor ==
    /\ Len(stack) >= Arity(Cur.name)
    /\ Last(stack) = IntValue(0)

\* C10: a division word executed with a zero divisor inside a try block does
\* not abort the host: execution continues at the catch index with the
\* error's string on the data stack.
C10_DivisionByZeroIsCatchable ==
    [][
        ( /\ AtOp("Execute")
          /\ Cur.name \in DivisionWords
          /\ ZeroDivisor
          /\ Top(M).catch_locations # <<>> )
        =>
        /\ status' = "running"
        /\ Last(frames').pc = Last(Top(M).catch_locations)
        /\ stack' # <<>>
        /\ Last(stack').t = "String"
    ]_vars

\* An array word that takes an index is about to execute on an array and an
\* index that is negative, or at or beyond the array's length.
IndexOutOfRange ==
    /\ AtOp("Execute")
    /\ Cur.name \in ArrayIndexWords
    /\ Len(stack) >= 2
    /\ is_vec(Last(stack))
    /\ stack[Len(stack) - 1].t = "Int"
    /\ \/ stack[Len(stack) - 1].n < 0
       \/ stack[Len(stack) - 1].n >= VecLen(M, Last(stack))

\* C11: the array read, write and delete words, given an index that is
\* negative or not less than the array's length, yield a script error (caught
\* by the enclosing try block when there is one) and do not abort the host.
C11_ArrayIndexErrorIsCatchable ==
    [][
        IndexOutOfRange =>
            /\ status' # "panicked"
            /\ event'.pending.on
            /\ (Top(M).catch_locations # <<>> => event'.kind = "catch")
    ]_vars

\* An arithmetic word is about to execute on two operands of which one is a
\* string, which has no conversion to a number.
OperandNotNumeric ==
    /\ AtOp("Execute")
    /\ Cur.name \in TypeWords
    /\ Len(stack) >= 2
    /\ \/ ~is_numeric(Last(stack))
       \/ ~is_numeric(stack[Len(stack) - 1])

\* C12: an arithmetic word (-, *, /, mod) applied to an operand that cannot
\* be converted to a number yields a script error (caught by the enclosing
\* try block when there is one) and does not abort the host.
C12_TypeErrorIsCatchable ==
    [][
        OperandNotNumeric =>
            /\ status' # "panicked"
            /\ event'.pending.on
            /\ (Top(M).catch_locations # <<>> => event'.kind = "catch")
    ]_vars

\* C13: when a catch recovers from an error raised by throw with message m,
\* the value on top of the data stack is a string whose text is m.
C13_CaughtStringIsMessage ==
    event.kind = "catch" =>
        /\ stack # <<>>
        /\ Last(stack).t = "String"
        /\ ToText(Last(stack).str) = event.pending.error.error

\* [].push_back! is about to append to the array on top of the data stack
\* while position i of the stack, beneath its operands, holds an array.
AppendsWhileHeld(i) ==
    /\ AtOp("Execute")
    /\ Cur.name = "[].push_back!"
    /\ Len(stack) >= 3
    /\ is_vec(Last(stack))
    /\ i \in 1..(Len(stack) - 2)
    /\ is_vec(stack[i])

\* C14: after dup duplicated an array, appending an element through one of
\* the two stack values leaves the size observed through the other unchanged.
C14_DupIsolatesArrays ==
    [][
        \A i \in 1..Len(stack) :
            AppendsWhileHeld(i) =>
                Len(heap'[stack[i].n].items) = Len(heap[stack[i].n].items)
    ]_vars

RECURSIVE Reach(_, _)
\* The cells value refers to in heap h, directly or through their items.
Reach(h, value) ==
    IF value.t \in {"Vec", "HashMap", "DataObject", "ByteBuffer", "Code"}
    THEN {value.n} \cup UNION {Reach(h, h[value.n].items[i]) :
                                   i \in 1..Len(h[value.n].items)}
    ELSE {}

RECURSIVE SameContent(_, _, _, _)
\* Value a in heap g and value b in heap h are the same value when references
\* are followed: same variant, same scalar, items that are the same.
SameContent(g, a, h, b) ==
    IF a.t \in {"Vec", "HashMap", "DataObject", "ByteBuffer", "Code"}
    THEN /\ b.t = a.t
         /\ g[a.n].kind = h[b.n].kind
         /\ g[a.n].position = h[b.n].position
         /\ g[a.n].definition = h[b.n].definition
         /\ Len(g[a.n].items) = Len(h[b.n].items)
         /\ \A i \in 1..Len(g[a.n].items) :
                SameContent(g, g[a.n].items[i], h, h[b.n].items[i])
    ELSE a = b

\* The values embedded in code as operands of PushConstantValue.
CodeConstants(code) ==
    {code[i].value : i \in {j \in 1..Len(code) :
                                code[j].op = "PushConstantValue"}}

\* The handlers registered so far.
Handlers ==
    UNION {{word_handlers[i].items[j].handler :
                j \in 1..Len(word_handlers[i].items)} :
               i \in 1..Len(word_handlers)}

\* The constants of the program: the values embedded in the code of the
\* active invocations and of the scripted words, and the values captured by
\* the constant words.
ProgramConstants ==
    UNION {CodeConstants(frames[i].code) : i \in 1..Len(frames)}
    \cup UNION {CodeConstants(handler.code) :
                    handler \in {x \in Handlers : x.kind = "scripted"}}
    \cup {handler.constant :
              handler \in {x \in Handlers : x.kind = "constant"}}

\* The constant the next step pushes: the operand of PushConstantValue, or
\* the value captured by the constant word that Execute calls.
PushedConstants ==
    IF AtOp("PushConstantValue") THEN {Cur.value}
    ELSE IF AtOp("Execute") /\ DictHas(dictionary, Cur.name)
    THEN LET handler == word_handler_info(
                            M, try_get(dictionary, Cur.name).handler_index
                        ).handler
         IN  IF handler.kind = "constant" THEN {handler.constant} ELSE {}
    ELSE {}

\* C15: PushConstantValue and a constant word push a fresh deep clone: the
\* pushed value has the content of the constant and shares no cell with
\* anything that existed before, and no step of the program, whatever it
\* mutates through the values it was pushed, changes a constant of the
\* program.
C15_ConstantsPushedAsFreshClones ==
    [][
        /\ \A constant \in ProgramConstants :
               SameContent(heap, constant, heap', constant)
        /\ \A constant \in PushedConstants :
               /\ stack' # <<>>
               /\ SameContent(heap, constant, heap', Last(stack'))
               /\ Reach(heap', Last(stack')) \cap (1..Len(heap)) = {}
    ]_vars

\* The constant word c has executed twice and the array it pushed first was
\* mutated in between: the two arrays on the stack differ.
C15_Witness ==
    /\ status = "done"
    /\ result.ok
    /\ DictHas(dictionary, "c")
    /\ Len(stack) = 2
    /\ is_vec(stack[1]) /\ is_vec(stack[2])
    /\ ~SameContent(heap, stack[1], heap, stack[2])

\* The mutable cells value refers to at any depth: the cells of the
\* reference variants. The cell of a ByteCode is a copy held by value.
MutableReach(h, value) ==
    {address \in Reach(h, value) : h[address].kind \in MutableKinds}

\* C16: v and deep_clone(v) share no mutable storage at any depth, and a
\* mutation applied through one of them leaves the content seen through the
\* other unchanged.
C16_DeepCloneSharesNothing ==
    [][
        /\ (Len(stack) = 1 /\ Len(stack') = 2) =>
               MutableReach(heap', stack'[1])
                   \cap MutableReach(heap', stack'[2]) = {}
        /\ (Len(stack) = 2 /\ event'.kind = "mutate") =>
               \A i \in 1..2 :
                   i # event'.level =>
                       SameContent(heap, stack[i], heap', stack[i])
    ]_vars

\* C17: the deep clone of a value is equal to the value under the equality
\* of values: deep_clone(v) == v, for every v.
C17_DeepCloneEqualsOriginal ==
    (Len(stack) = 2 /\ event.kind = "clone") =>
        eq(heap, stack[2], heap, stack[1])

\* C18: when 0 <= pc + rel < len(code), executing Jump(rel) at index pc
\* makes the instruction at index pc + rel the next one executed, the case
\* pc + rel = 0 included.
C18_JumpLandsOnTarget ==
    [][
        (/\ AtOp("Jump")
         /\ 0 <= Top(M).pc + Cur.rel
         /\ Top(M).pc + Cur.rel < Len(Top(M).code)) =>
            /\ status' = "running"
            /\ Len(frames') = Len(frames)
            /\ frames'[Len(frames')].mode = "run"
            /\ frames'[Len(frames')].pc = Top(M).pc + Cur.rel
    ]_vars

\* C19: word lookup returns the definition in the newest frame that holds
\* the name; a definition added in a later frame shadows an earlier one of
\* the same name, and once that later frame is released lookup returns the
\* earlier definition again.
C19_LookupFindsNewestDefinition ==
    [][
        \A name \in WordNames :
            /\ \A i \in 1..Len(dictionary') :
                   (/\ name \in DOMAIN dictionary'[i]
                    /\ \A j \in (i + 1)..Len(dictionary') :
                           name \notin DOMAIN dictionary'[j]) =>
                       try_get(dictionary', name) = dictionary'[i][name]
            /\ (event'.kind = "add" /\ name \in event'.mark.names) =>
                   /\ try_get(dictionary', name).handler_index
                          = ListLen(word_handlers') - 1
                   /\ Front(dictionary') = Front(dictionary)
            /\ (event'.kind = "host_release" /\ status' # "panicked") =>
                   \A k \in 1..(Len(dictionary) - 1) :
                       (/\ name \in DOMAIN dictionary[k]
                        /\ \A j \in (k + 1)..(Len(dictionary) - 1) :
                               name \notin DOMAIN dictionary[j]) =>
                           try_get(dictionary', name) = dictionary[k][name]
    ]_vars

\* The frame holding w was released and lookup finds the w of an earlier
\* frame.
C19_Witness ==
    /\ event.kind = "host_release"
    /\ status = "host"
    /\ "w" \in event.mark.names
    /\ DictHas(dictionary, "w")

\* C20: after any sequence of add_word, mark_context and release_context,
\* every word lookup can find has the handler_index it was given when it
\* was added, and word_handlers[handler_index] exists and is the handler
\* registered with the word.
C20_HandlerIndexIsStable ==
    [][
        \A name \in WordNames :
            DictHas(dictionary', name) =>
                LET index == try_get(dictionary', name).handler_index
                    after == [word_handlers |-> word_handlers']
                    i == CHOOSE k \in DictHolders(dictionary', name) :
                             \A j \in DictHolders(dictionary', name) : j <= k
                IN  /\ 0 <= index
                    /\ index < ListLen(word_handlers')
                    /\ word_handler_info(after, index).name = name
                    /\ IF event'.kind = "add" /\ name \in event'.mark.names
                       THEN /\ index = ListLen(word_handlers)
                            /\ word_handler_info(after, index).handler
                                   = ScriptedHandler(name, event'.level)
                       ELSE /\ i <= Len(dictionary)
                            /\ name \in DOMAIN dictionary[i]
                            /\ dictionary[i][name].handler_index = index
                            /\ word_handler_info(after, index)
                                   = word_handler_info(M, index)
    ]_vars

\* A context that defined words was released, and lookup still finds both
\* names in the contexts that remain.
C20_Witness ==
    /\ event.kind = "host_release"
    /\ status = "host"
    /\ event.mark.names # {}
    /\ \A name \in WordNames : DictHas(dictionary, name)

\* The keys of the hash map in cell.
HashKeys(cell) ==
    {cell.items[2 * i - 1] : i \in 1..(Len(cell.items) \div 2)}

\* The value the hash map in cell holds for key.
HashGet(cell, key) ==
    cell.items[2 * (CHOOSE i \in 1..(Len(cell.items) \div 2) :
                        cell.items[2 * i - 1] = key)]

\* C21: hash-map equality is structural: two hash maps compare equal
\* exactly when they have the same set of keys and equal values for every
\* key (so a == b implies b == a).
C21_HashEqualityIsStructural ==
    status = "done" =>
        stack = <<BoolValue(/\ HashKeys(heap[1]) = HashKeys(heap[2])
                            /\ \A key \in HashKeys(heap[1]) :
                                   HashGet(heap[1], key)
                                       = HashGet(heap[2], key))>>

\* C22: write_string(n, s) followed by read_string(n) from the same
\* starting position returns s truncated to its first n bytes and cut at the
\* first zero byte, for every s and every n that fits in the buffer at the
\* cursor.
C22_StringRoundTrip ==
    (status = "done" /\ Len(heap) = 3) =>
        [i \in 1..Len(heap[3].items) |-> heap[3].items[i].n]
            = UpToZero(Take([i \in 1..Len(heap[2].items) |->
                                heap[2].items[i].n],
                            stack[1].n))

----------------------------------------------------------------------------
(* InterpreterStack::pick called by the host *)

\* interpreter.pick(index): the value returned is kept in a new cell.
Pick ==
    /\ status = "host"
    /\ \E index \in 0..MaxPick :
           LET picked == pick(Begin, index)
               m1 == [picked.m EXCEPT !.event.kind = "pick",
                                      !.event.target = index,
                                      !.event.level = Len(stack),
                                      !.result = picked.res]
           IN  IF picked.panic THEN Commit([m1 EXCEPT !.status = "panicked"])
               ELSE IF ~picked.res.ok THEN Commit([m1 EXCEPT !.status = "done"])
               ELSE Commit([m1 EXCEPT
                               !.status = "done",
                               !.heap = Alloc(@, Cell("Value",
                                                      <<picked.value>>))])

\* Every stack of up to MaxPick of the integers 1..3.
InitPick ==
    \E n \in 0..MaxPick :
        \E values \in [1..n -> 1..3] :
            StateIs([NewInterpreter EXCEPT
                        !.stack = [i \in 1..n |-> IntValue(values[i])]])

NextPick == Pick

SpecPick == InitPick /\ [][NextPick]_vars

\* C24: pick with an index at or beyond the length of the data stack returns
\* the stack underflow script error.
C24_PickOutOfBoundsIsUnderflow ==
    (event.kind = "pick" /\ event.target >= event.level) =>
        /\ status = "done"
        /\ ~result.ok
        /\ result.err.error = "Stack underflow."

\* C25: when the call of a Managed scripted word returns, with Ok or with an
\* error, every container has the number of frames it had before the call
\* (less the frames the caller itself releases when it lets the error out),
\* and no variable, word or definition made by the body can be reached.
C25_ManagedWordReleasesItsContext ==
    [][
        ( /\ status = "running"
          /\ Len(frames) > 1
          /\ Top(M).mode = "ret"
          /\ Top(M).context = "Managed"
          /\ status' = "running" )
        => LET f == Top(M)
               caller == frames'[Len(frames')]
               released == IF caller.mode = "ret"
                           THEN frames[Len(frames) - 1].contexts ELSE 0
           IN  /\ \A i \in 1..4 :
                      Depths(M)'[i] = f.entry_depths[i] - 1 - released
               /\ ListLen(variables') <= f.entry_mark.variables
               /\ ListLen(word_handlers') <= f.entry_mark.word_handlers
               /\ ListLen(data_definitions') <= f.entry_mark.data_definitions
               /\ FindableNames(dictionary') \subseteq f.entry_mark.names
    ]_vars

\* The error of a ReleaseContext without a context.
UnbalancedRelease == "Unbalanced context release detected."

\* C26: a ReleaseContext executed by an invocation whose count of open
\* contexts is zero yields the unbalanced-release script error and changes no
\* container; and while an invocation is active no container has fewer frames
\* than when that invocation was entered, so that a block never releases a
\* frame opened by its caller.
C26_ReleaseWithoutContextIsAnError ==
    /\ [](\A k \in 1..Len(frames) :
              \A i \in 1..4 : Depths(M)[i] >= frames[k].entry_depths[i])
    /\ [][
           ( /\ AtOp("ReleaseContext")
             /\ Top(M).contexts = 0
             /\ status' = "running" )
           => /\ event'.pending.on
              /\ event'.pending.error.error = UnbalancedRelease
              /\ dictionary' = dictionary
              /\ word_handlers' = word_handlers
              /\ data_definitions' = data_definitions
              /\ variables' = variables
       ]_vars

\* the scripted word w, called with a context of its caller open, executed
\* ReleaseContext first and returns the error; the caller's frame is there
C26_Witness ==
    /\ status = "running"
    /\ Len(frames) = 2
    /\ frames[1].contexts = 1
    /\ frames[2].mode = "ret"
    /\ frames[2].context = "Manual"
    /\ ~frames[2].res.ok
    /\ frames[2].res.err.error = UnbalancedRelease
    /\ Len(dictionary) = frames[1].entry_depths[1] + 1

\* The boolean a numeric value stands for: a boolean is itself, any other
\* numeric value is false iff it is zero.
Truth(value) ==
    IF value.t = "Bool" THEN value.n = 1
    ELSE IF value.t = "None" THEN FALSE
    ELSE get_float_val(value).nan \/ value.n # 0

\* C27: JumpIfZero and JumpIfNotZero pop one value, which stands for a
\* boolean (a numeric value that is no boolean is false iff it is zero);
\* JumpIfZero continues at pc + rel iff it is false, JumpIfNotZero iff it is
\* true, and otherwise the instruction at pc + 1 is next.
C27_ConditionalJumps ==
    [][
        \A expected \in BOOLEAN :
            ( /\ AtOp(IF expected THEN "JumpIfNotZero" ELSE "JumpIfZero")
              /\ stack # <<>>
              /\ is_numeric(Last(stack))
              /\ 0 <= Top(M).pc + Cur.rel
              /\ Top(M).pc + Cur.rel <= Len(Top(M).code) )
            => /\ status' = "running"
               /\ stack' = Front(stack)
               /\ Len(frames') = Len(frames)
               /\ frames'[Len(frames')].mode = "run"
               /\ frames'[Len(frames')].pc =
                      IF Truth(Last(stack)) = expected
                      THEN Top(M).pc + Cur.rel
                      ELSE Top(M).pc + 1
    ]_vars

----------------------------------------------------------------------------
(* ContextualList used on its own: the list of the variables *)

\* list.insert(value)
InsertItem ==
    /\ status = "host"
    /\ ListLen(variables) < MaxItems
    /\ \E value \in 1..2 :
           LET ins == ListInsert(variables, IntValue(value))
           IN  Commit([Begin EXCEPT !.variables = ins.v,
                                    !.event.kind = "insert",
                                    !.event.level = value,
                                    !.event.target = ins.index])

\* list.mark_context(); the history keeps the length and the items.
MarkList ==
    /\ status = "host"
    /\ Len(variables) <= MaxItems
    /\ Commit([Begin EXCEPT
                  !.variables = ListMarkContext(@),
                  !.history = Append(@, [len |-> ListLen(variables),
                                         items |-> ListIter(variables)]),
                  !.event.kind = "mark"])

\* list.release_context()
ReleaseList ==
    /\ status = "host"
    /\ LET released == ListReleaseContext(variables)
       IN  IF released.panic THEN Commit(Panic(Begin))
           ELSE Commit([Begin EXCEPT !.variables = released.v,
                                     !.history = Front(@),
                                     !.event.kind = "release_list"])

NextList ==
    \/ InsertItem
    \/ MarkList
    \/ ReleaseList

SpecList == Init /\ [][NextList]_vars

\* C29: insert returns the absolute index of the new item, which makes it
\* the last item of the iteration and leaves the items before it as they
\* were; marking a context changes nothing the iteration yields; and list[i],
\* for every i below len, is the item the iteration yields at place i,
\* whichever context holds it.
C29_IndexAndIterationFollowInsertionOrder ==
    /\ [](status # "panicked" =>
              /\ Len(ListIter(variables)) = ListLen(variables)
              /\ \A i \in 0..(ListLen(variables) - 1) :
                     ListIndex(variables, i) =
                         [panic |-> FALSE,
                          value |-> ListIter(variables)[i + 1]])
    /\ [][
           /\ event'.kind = "insert" =>
                  /\ event'.target = ListLen(variables)
                  /\ ListIter(variables') =
                         Append(ListIter(variables), IntValue(event'.level))
           /\ event'.kind = "mark" =>
                  ListIter(variables') = ListIter(variables)
       ]_vars

\* items are held by three contexts, the one in the middle is empty
C29_Witness ==
    /\ status = "host"
    /\ Len(variables) = 3
    /\ variables[1].items # <<>>
    /\ variables[2].items = <<>>
    /\ Len(variables[3].items) = 2
    /\ event.kind = "insert"

\* C30: release_context removes exactly the items inserted since the
\* matching mark_context: len is what it was at the mark and every item
\* below it is the item that was there at the mark.
C30_ReleaseRemovesItemsSinceMark ==
    [][
        event'.kind = "release_list" =>
            LET mark == Last(history)
            IN  /\ ListLen(variables') = mark.len
                /\ ListIter(variables') = mark.items
                /\ \A i \in 0..(mark.len - 1) :
                       ListIndex(variables', i) =
                           [panic |-> FALSE, value |-> mark.items[i + 1]]
    ]_vars

\* a context holding items, marked on a list holding items, was released
C30_Witness ==
    /\ event.kind = "release_list"
    /\ ListLen(variables) = 2
    /\ Len(variables) = 2
    /\ Len(history) = 1

----------------------------------------------------------------------------
(* runtime/data_structures/byte_buffer.rs: resize *)

\* The builds to consider for current_position = new_size - 1: both when
\* new_size is zero, else one.
ResizeBuilds(new_size) == IF new_size = 0 THEN BOOLEAN ELSE {FALSE}

\* ByteBuffer::resize; checks: the build has overflow checks.
resize(m, address, new_size, checks) ==
    LET cell == m.heap[address]
        resized == [i \in 1..new_size |->
                       IF i <= Len(cell.items) THEN cell.items[i]
                       ELSE IntValue(0)]
        m1 == [m EXCEPT !.heap[address].items = resized]
    IN  IF ~UsizeLt(cell.position, new_size)
        THEN IF new_size = 0 /\ checks THEN Panic(m1)
             ELSE [m1 EXCEPT !.heap[address].position = new_size - 1]
        ELSE m1

\* Every buffer of up to MaxBufferLen bytes, each 1 or 2, with its cursor
\* anywhere from 0 to its length.
InitResize ==
    \E n \in 0..MaxBufferLen :
        \E bytes \in [1..n -> 1..2], position \in 0..n :
            StateIs([NewInterpreter EXCEPT
                        !.heap = <<[Cell("ByteBuffer",
                                         [i \in 1..n |-> IntValue(bytes[i])])
                                       EXCEPT !.position = position]>>])

\* buffer.resize(new_size) called once
Resize ==
    /\ status = "host"
    /\ event.kind = "none"
    /\ \E new_size \in 0..(MaxBufferLen + 1) :
           \E checks \in ResizeBuilds(new_size) :
               LET m1 == resize(Begin, 1, new_size, checks)
               IN  Commit([m1 EXCEPT
                              !.event.kind = "resize",
                              !.event.target = new_size,
                              !.status = IF m1.status = "panicked"
                                         THEN "panicked" ELSE "done"])

NextResize == Resize

SpecResize == InitResize /\ [][NextResize]_vars

\* C31: resize(n) does not panic, keeps the first min(old length, n) bytes,
\* fills the bytes added with zeros, and leaves the cursor where it was when
\* that is at most n and else puts it at n, so that 0 <= cursor <= length.
C31_ResizeKeepsBytesAndClampsCursor ==
    [][
        event'.kind = "resize" =>
            LET n == event'.target
                old == heap[1]
                new == heap'[1]
            IN  /\ status' # "panicked"
                /\ Len(new.items) = n
                /\ \A i \in 1..n :
                       new.items[i] = IF i <= Len(old.items) THEN old.items[i]
                                      ELSE IntValue(0)
                /\ new.position = IF old.position <= n THEN old.position
                                  ELSE n
                /\ 0 <= new.position
                /\ new.position <= Len(new.items)
    ]_vars

----------------------------------------------------------------------------
(* runtime/data_structures/byte_buffer.rs: write_int and read_int *)

\* value.to_le_bytes()[i] for an i64 within the 32-bit range, the range of
\* the i64 values of this model: the bytes 4 to 7 are the sign extension.
LeByte(value, i) ==
    IF i < 4 THEN (value \div (256 ^ i)) % 256
    ELSE IF value < 0 THEN 255 ELSE 0

\* ByteBuffer::write_int
write_int(m, address, byte_size, value) ==
    LET position == m.heap[address].position
        m1 == increment_position(m, address, byte_size)
    IN  IF byte_size \notin {1, 2, 4, 8} THEN Panic(m)
        ELSE IF m1.status = "panicked" THEN m1
        ELSE [m1 EXCEPT !.heap[address].items =
                 [i \in 1..Len(@) |->
                     IF i > position /\ i <= position + byte_size
                     THEN IntValue(LeByte(value, i - position - 1))
                     ELSE @[i]]]

\* i16, i32 and i64::from_le_bytes, u16 and u64::from_le_bytes as i64, for
\* results within the 32-bit range.
FromLeBytes(bytes, is_signed) ==
    LET high == bytes[Len(bytes)]
        top  == IF Len(bytes) = 8 THEN bytes[4] ELSE high
        low  == IF Len(bytes) = 2 THEN bytes[1]
                ELSE bytes[1] + 256 * bytes[2] + 65536 * bytes[3]
        scale == IF Len(bytes) = 2 THEN 256 ELSE 16777216
    IN  IF is_signed \/ Len(bytes) = 8
        THEN low + scale * (IF top >= 128 THEN top - 256 ELSE top)
        ELSE low + scale * top

\* ByteBuffer::read_int: the interpreter after the read and the i64 returned.
read_int(m, address, byte_size, is_signed) ==
    LET position == m.heap[address].position
        m1 == increment_position(m, address, byte_size)
        bytes == [i \in 1..byte_size |->
                     m.heap[address].items[position + i].n]
    IN  IF m1.status = "panicked" THEN [m |-> m1, value |-> 0]
        ELSE IF byte_size = 1 THEN [m |-> m1, value |-> bytes[1]]
        ELSE IF byte_size \in {2, 4, 8}
        THEN [m |-> m1, value |-> FromLeBytes(bytes, is_signed)]
        ELSE [m |-> Panic(m1), value |-> 0]

\* The integers written with byte_size bytes: the least and the greatest
\* signed value of that size (of 4 bytes for 8), and values around zero and
\* around the sign bit of a byte.
IntsOf(byte_size) ==
    LET least == CASE byte_size = 1 -> -128
                   [] byte_size = 2 -> -32768
                   [] OTHER -> -2147483647 - 1
        greatest == CASE byte_size = 1 -> 127
                      [] byte_size = 2 -> 32767
                      [] OTHER -> 2147483647
        inner == IF byte_size = 1 THEN {} ELSE {-129, -128, 127, 128, 255, 256}
    IN  {least, greatest, -2, -1, 0, 1} \cup inner

\* A buffer of MaxBufferLen + 8 bytes with its cursor at some position; the
\* stack holds the value and the byte size.
InitInt ==
    \E byte_size \in {1, 2, 4, 8}, fill \in {0, 255},
       position \in 0..MaxBufferLen :
        \E value \in IntsOf(byte_size) :
            StateIs([NewInterpreter EXCEPT
                        !.heap = <<[Cell("ByteBuffer",
                                         [i \in 1..(MaxBufferLen + 8) |->
                                             IntValue(fill)])
                                       EXCEPT !.position = position]>>,
                        !.stack = <<IntValue(value), IntValue(byte_size)>>])

\* buffer.write_int(byte_size, value)
WriteInt ==
    /\ status = "host"
    /\ event.kind = "none"
    /\ Commit([write_int(Begin, 1, stack[2].n, stack[1].n)
                  EXCEPT !.event.kind = "write",
                         !.event.target = heap[1].position])

\* buffer.read_int(byte_size, true): the value read is pushed.
ReadInt ==
    /\ status = "host"
    /\ event.kind = "rewind"
    /\ LET read == read_int(Begin, 1, stack[2].n, TRUE)
       IN  Commit([push(read.m, IntValue(read.value))
                      EXCEPT !.status = "done",
                             !.event.kind = "read_int"])

NextInt ==
    \/ WriteInt
    \/ Rewind
    \/ ReadInt

SpecInt == InitInt /\ [][NextInt]_vars

\* C32: write_int(s, v) stores the s low-order bytes of v, the lowest
\* first, and read_int(s, signed) of those bytes returns v, for s in
\* {1, 2, 4, 8} and every v that fits in s bytes as a signed integer.
C32_IntRoundTrip ==
    /\ event.kind = "write" =>
           /\ heap[1].items[event.target + 1].n = stack[1].n % 256
           /\ stack[2].n > 1 =>
                  heap[1].items[event.target + 2].n
                      = (stack[1].n \div 256) % 256
    /\ event.kind = "read_int" =>
           /\ status = "done"
           /\ stack[3] = stack[1]

----------------------------------------------------------------------------
(* The word pick *)

\* Every stack of up to MaxPick of the integers 1..3 with an index from -1
\* to MaxPick on top; the block is the word pick.
InitPickWord ==
    \E n \in 0..MaxPick, index \in -1..MaxPick :
        \E values \in [1..n -> 1..3] :
            StateIs([Running(<<"pick">>, <<>>,
                             <<Instruction("Execute", "pick", 0, TRUE)>>)
                        EXCEPT !.stack = [i \in 1..n |-> IntValue(values[i])]
                                         \o <<IntValue(index)>>])

NextPickWord ==
    \/ Execute
    \/ Finish
    \/ Return

SpecPickWord == InitPickWord /\ [][NextPickWord]_vars

\* C33: the word pick, with the index n on top of more than n further
\* values, pops n and pushes a copy of the value n places below the top
\* (0 is the top); every other value stays where it is.
C33_PickCopiesNthFromTop ==
    [][
        ( /\ AtOp("Execute")
          /\ Cur.name = "pick"
          /\ stack # <<>>
          /\ Last(stack).t = "Int"
          /\ Last(stack).n >= 0
          /\ Last(stack).n < Len(stack) - 1 )
        => /\ status' = "running"
           /\ frames'[Len(frames')].mode = "run"
           /\ stack' = Append(Front(stack),
                              stack[Len(stack) - 1 - Last(stack).n])
    ]_vars

\* 1 2 3 then 1 pick has given 1 2 3 2
C33_Witness ==
    /\ status = "done"
    /\ result.ok
    /\ stack = <<IntValue(1), IntValue(2), IntValue(3), IntValue(2)>>

----------------------------------------------------------------------------
(* reset *)

\* SorthInterpreter::reset: the top context is released, the stack cleared
\* and a new context marked.
reset(m) ==
    LET released == release_context(m)
    IN  IF released.status = "panicked" THEN released
        ELSE mark_context([released EXCEPT !.stack = <<>>])

\* A new interpreter whose stack holds nothing or one value.
InitReset ==
    \E values \in {<<>>, <<IntValue(1)>>} :
        StateIs([NewInterpreter EXCEPT !.stack = values])

\* interpreter.define_variable called by the host
HostDefineVariable ==
    /\ status = "host"
    /\ ~DictHas(dictionary, "x")
    /\ Commit(define_variable(Begin, "x"))

\* interpreter.reset() called by the host or by the word reset
Reset ==
    /\ status = "host"
    /\ Commit([reset(Begin) EXCEPT !.event.kind = "reset"])

NextReset ==
    \/ AddWord
    \/ HostDefineVariable
    \/ HostMarkContext
    \/ HostReleaseContext
    \/ Reset

SpecReset == InitReset /\ [][NextReset]_vars

\* A step of reset.
ResetStep == status = "host" /\ event'.kind = "reset"

\* The effect the interface documents for reset: the stack is empty, what
\* the top context held is gone, and every container has as many contexts as
\* before.
ResetEffect ==
    /\ status' = "host"
    /\ stack' = <<>>
    /\ Depths(M)' = Depths(M)
    /\ dictionary' = DictMarkContext(Front(dictionary))
    /\ word_handlers' = ListMarkContext(Front(word_handlers))
    /\ data_definitions' = ListMarkContext(Front(data_definitions))
    /\ variables' = ListMarkContext(Front(variables))

\* C34: reset, from any interpreter state, one with only the root context
\* included, clears the stack, discards exactly what the top context holds
\* and leaves every container with as many contexts as before.
C34_ResetFromAnyState == [][ResetStep => ResetEffect]_vars

----------------------------------------------------------------------------
(* runtime/built_ins/base_words/byte_buffer_words.rs *)

\* InterpreterStack::pop_as_byte_buffer: address is the cell referred to.
pop_as_byte_buffer(m) ==
    LET p == pop(m)
    IN  IF ~p.res.ok THEN [m |-> p.m, res |-> p.res, address |-> 0]
        ELSE IF p.value.t # "ByteBuffer"
        THEN [m |-> p.m, res |-> script_error(p.m, "Expected a byte buffer."),
              address |-> 0]
        ELSE [m |-> p.m, res |-> Ok, address |-> p.value.n]

\* InterpreterStack::pop_as_float
pop_as_float(m) == pop_as_int(m)

\* (value as f32).to_le_bytes() and value.to_le_bytes() of 0.0 and of 1.0,
\* the floats of the programs.
FloatLeBytes(byte_size, value) ==
    IF value = 0 THEN [i \in 1..byte_size |-> 0]
    ELSE IF byte_size = 4 THEN <<0, 0, 128, 63>>
    ELSE <<0, 0, 0, 0, 0, 0, 240, 63>>

\* ByteBuffer::write_float
write_float(m, address, byte_size, value) ==
    LET position == m.heap[address].position
        m1 == increment_position(m, address, byte_size)
    IN  IF byte_size \notin {4, 8} THEN Panic(m)
        ELSE IF m1.status = "panicked" THEN m1
        ELSE [m1 EXCEPT !.heap[address].items =
                 [i \in 1..Len(@) |->
                     IF i > position /\ i <= position + byte_size
                     THEN IntValue(FloatLeBytes(byte_size,
                                                value)[i - position])
                     ELSE @[i]]]

\* ByteBuffer::read_float: the interpreter after the read and the f64
\* returned, for bytes that encode 0.0 or 1.0.
read_float(m, address, byte_size) ==
    LET position == m.heap[address].position
        m1 == increment_position(m, address, byte_size)
        bytes == [i \in 1..byte_size |->
                     m.heap[address].items[position + i].n]
    IN  IF m1.status = "panicked" THEN [m |-> m1, value |-> 0]
        ELSE IF byte_size \in {4, 8}
        THEN [m |-> m1,
              value |-> IF bytes = FloatLeBytes(byte_size, 1) THEN 1 ELSE 0]
        ELSE [m |-> Panic(m1), value |-> 0]

\* The texts of the strings of the programs, and their bytes.
StringTexts == {"", "A", "AB"}

as_bytes(text) ==
    CASE text = "A" -> <<65>>
      [] text = "AB" -> <<65, 66>>
      [] OTHER -> <<>>

\* String::from_utf8_lossy(..).to_string() of the bytes of one of StringTexts
ToStringText(bytes) == CHOOSE text \in StringTexts : as_bytes(text) = bytes

\* check_buffer_index: position + byte_size on usize.  checks: the build has
\* overflow checks.  A sum that passes 2^64 panics with them and wraps
\* without.
check_buffer_index(m, address, byte_size, checks) ==
    LET position == m.heap[address].position
        len == Len(m.heap[address].items)
        overflows == byte_size < 0 /\ position + byte_size >= 0
        exceeds == IF byte_size < 0 /\ ~overflows THEN TRUE
                   ELSE position + byte_size > len
    IN  IF overflows /\ checks THEN [res |-> Ok, panic |-> TRUE]
        ELSE IF exceeds
        THEN [res |-> script_error(m,
                  "Writing a value size " \o UsizeToString(byte_size)
                  \o " at a position " \o UsizeToString(position)
                  \o " would exceed the buffer size "
                  \o UsizeToString(len) \o "."),
              panic |-> FALSE]
        ELSE [res |-> Ok, panic |-> FALSE]

InvalidIntSize(m, byte_size) ==
    script_error(m, "Invalid byte size " \o UsizeToString(byte_size)
                    \o " for integer value.")

InvalidFloatSize(m, byte_size) ==
    script_error(m, "Invalid byte size " \o UsizeToString(byte_size)
                    \o " for floating point value.")

word_buffer_write_int(m, checks) ==
    LET byte_size == pop_as_usize(m)
        buffer_ptr == pop_as_byte_buffer(byte_size.m)
        value == pop_as_int(buffer_ptr.m)
        checked == check_buffer_index(value.m, buffer_ptr.address,
                                      byte_size.n, checks)
        written == write_int(value.m, buffer_ptr.address, byte_size.n,
                             value.n)
    IN  IF ~byte_size.res.ok THEN Outcome(byte_size.m, byte_size.res, FALSE)
        ELSE IF ~buffer_ptr.res.ok
        THEN Outcome(buffer_ptr.m, buffer_ptr.res, FALSE)
        ELSE IF ~value.res.ok THEN Outcome(value.m, value.res, FALSE)
        ELSE IF checked.panic THEN Outcome(value.m, Ok, TRUE)
        ELSE IF ~checked.res.ok THEN Outcome(value.m, checked.res, FALSE)
        ELSE IF byte_size.n \notin {1, 2, 4, 8}
        THEN Outcome(value.m, InvalidIntSize(value.m, byte_size.n), FALSE)
        ELSE Outcome(written, Ok, written.status = "panicked")

word_buffer_read_int(m, checks) ==
    LET is_signed == pop_as_bool(m)
        byte_size == pop_as_usize(is_signed.m)
        buffer_ptr == pop_as_byte_buffer(byte_size.m)
        checked == check_buffer_index(buffer_ptr.m, buffer_ptr.address,
                                      byte_size.n, checks)
        read == read_int(buffer_ptr.m, buffer_ptr.address, byte_size.n,
                         is_signed.bool)
    IN  IF ~is_signed.res.ok THEN Outcome(is_signed.m, is_signed.res, FALSE)
        ELSE IF ~byte_size.res.ok
        THEN Outcome(byte_size.m, byte_size.res, FALSE)
        ELSE IF ~buffer_ptr.res.ok
        THEN Outcome(buffer_ptr.m, buffer_ptr.res, FALSE)
        ELSE IF checked.panic THEN Outcome(buffer_ptr.m, Ok, TRUE)
        ELSE IF ~checked.res.ok
        THEN Outcome(buffer_ptr.m, checked.res, FALSE)
        ELSE IF byte_size.n \notin {1, 2, 4, 8}
        THEN Outcome(buffer_ptr.m,
                     InvalidIntSize(buffer_ptr.m, byte_size.n), FALSE)
        ELSE IF read.m.status = "panicked" THEN Outcome(read.m, Ok, TRUE)
        ELSE Outcome(push(read.m, IntValue(read.value)), Ok, FALSE)

\* The bounds of the buffer are not checked before the write.
word_buffer_write_float(m, checks) ==
    LET byte_size == pop_as_usize(m)
        buffer_ptr == pop_as_byte_buffer(byte_size.m)
        value == pop_as_float(buffer_ptr.m)
        written == write_float(value.m, buffer_ptr.address, byte_size.n,
                               value.n)
    IN  IF ~byte_size.res.ok THEN Outcome(byte_size.m, byte_size.res, FALSE)
        ELSE IF ~buffer_ptr.res.ok
        THEN Outcome(buffer_ptr.m, buffer_ptr.res, FALSE)
        ELSE IF ~value.res.ok THEN Outcome(value.m, value.res, FALSE)
        ELSE IF byte_size.n \notin {4, 8}
        THEN Outcome(value.m, InvalidFloatSize(value.m, byte_size.n), FALSE)
        ELSE Outcome(written, Ok, written.status = "panicked")

word_buffer_read_float(m, checks) ==
    LET byte_size == pop_as_usize(m)
        buffer_ptr == pop_as_byte_buffer(byte_size.m)
        checked == check_buffer_index(buffer_ptr.m, buffer_ptr.address,
                                      byte_size.n, checks)
        read == read_float(buffer_ptr.m, buffer_ptr.address, byte_size.n)
    IN  IF ~byte_size.res.ok THEN Outcome(byte_size.m, byte_size.res, FALSE)
        ELSE IF ~buffer_ptr.res.ok
        THEN Outcome(buffer_ptr.m, buffer_ptr.res, FALSE)
        ELSE IF checked.panic THEN Outcome(buffer_ptr.m, Ok, TRUE)
        ELSE IF ~checked.res.ok
        THEN Outcome(buffer_ptr.m, checked.res, FALSE)
        ELSE IF byte_size.n \notin {4, 8}
        THEN Outcome(buffer_ptr.m,
                     InvalidFloatSize(buffer_ptr.m, byte_size.n), FALSE)
        ELSE IF read.m.status = "panicked" THEN Outcome(read.m, Ok, TRUE)
        ELSE Outcome(push(read.m, FloatValue(read.value)), Ok, FALSE)

\* A byte_size of 2^64 - k that passed the check did so in a build without
\* overflow checks, where position + byte_size wrapped to position - k:
\* increment_position wraps the same way, the slice written is that of the
\* bytes of the string, and the range of the padding is empty.
word_buffer_write_string(m, checks) ==
    LET byte_size == pop_as_usize(m)
        buffer_ptr == pop_as_byte_buffer(byte_size.m)
        value == pop_as_string(buffer_ptr.m)
        address == buffer_ptr.address
        checked == check_buffer_index(value.m, address, byte_size.n, checks)
        bytes == as_bytes(value.string)
        position == value.m.heap[address].position
        written == write_string(value.m, address, byte_size.n, bytes)
        wrapped == [value.m EXCEPT
                       !.heap[address].position = position + byte_size.n,
                       !.heap[address].items =
                           [i \in 1..Len(@) |->
                               IF i > position /\ i <= position + Len(bytes)
                               THEN IntValue(bytes[i - position])
                               ELSE @[i]]]
    IN  IF ~byte_size.res.ok THEN Outcome(byte_size.m, byte_size.res, FALSE)
        ELSE IF ~buffer_ptr.res.ok
        THEN Outcome(buffer_ptr.m, buffer_ptr.res, FALSE)
        ELSE IF ~value.res.ok THEN Outcome(value.m, value.res, FALSE)
        ELSE IF checked.panic THEN Outcome(value.m, Ok, TRUE)
        ELSE IF ~checked.res.ok THEN Outcome(value.m, checked.res, FALSE)
        ELSE IF byte_size.n < 0
        THEN IF position + Len(bytes) > Len(value.m.heap[address].items)
             THEN Outcome(value.m, Ok, TRUE)
             ELSE Outcome(wrapped, Ok, FALSE)
        ELSE Outcome(written, Ok, written.status = "panicked")

\* With a byte_size of 2^64 - k that passed the check, the slice
\* position..position - k has its start after its end: the read panics.
word_buffer_read_string(m, checks) ==
    LET byte_size == pop_as_usize(m)
        buffer_ptr == pop_as_byte_buffer(byte_size.m)
        checked == check_buffer_index(buffer_ptr.m, buffer_ptr.address,
                                      byte_size.n, checks)
        read == read_string(buffer_ptr.m, buffer_ptr.address, byte_size.n)
    IN  IF ~byte_size.res.ok THEN Outcome(byte_size.m, byte_size.res, FALSE)
        ELSE IF ~buffer_ptr.res.ok
        THEN Outcome(buffer_ptr.m, buffer_ptr.res, FALSE)
        ELSE IF checked.panic THEN Outcome(buffer_ptr.m, Ok, TRUE)
        ELSE IF ~checked.res.ok
        THEN Outcome(buffer_ptr.m, checked.res, FALSE)
        ELSE IF byte_size.n < 0 THEN Outcome(buffer_ptr.m, Ok, TRUE)
        ELSE IF read.m.status = "panicked" THEN Outcome(read.m, Ok, TRUE)
        ELSE Outcome(push(read.m,
                          StringValue(PlainString(ToStringText(read.string)))),
                     Ok, FALSE)

\* The words of register_byte_buffer_words that read or write the buffer.
BufferWords ==
    <<"buffer.int!", "buffer.int@", "buffer.float!", "buffer.float@",
      "buffer.string!", "buffer.string@">>

BufferWord(m, name, checks) ==
    CASE name = "buffer.int!" -> word_buffer_write_int(m, checks)
      [] name = "buffer.int@" -> word_buffer_read_int(m, checks)
      [] name = "buffer.float!" -> word_buffer_write_float(m, checks)
      [] name = "buffer.float@" -> word_buffer_read_float(m, checks)
      [] name = "buffer.string!" -> word_buffer_write_string(m, checks)
      [] OTHER -> word_buffer_read_string(m, checks)

\* Op::Execute of one of BufferWords
ExecuteBufferWord ==
    /\ AtOp("Execute")
    /\ DictHas(dictionary, Cur.name)
    /\ LET m0 == Fetch(Begin)
           location == IF m0.current_location # NoLoc
                       THEN m0.current_location ELSE Here
           word == try_get(m0.dictionary, Cur.name)
           info == word_handler_info(m0, word.handler_index)
           m1 == EnterHandler(m0, location, info)
       IN  \E checks \in BOOLEAN :
               LET native == BufferWord(m1, info.handler.name, checks)
               IN  IF native.panic
                   THEN Commit(Panic(native.m))
                   ELSE Complete(LeaveHandler(native.m), native.res)

\* The sizes of the accesses: the valid ones, invalid ones, and 2^64 - 1.
AccessSizes == {-1, 0, 1, 2, 3, 4, 8}

\* The arguments of word name for a buffer access of byte_size bytes.
Arguments(name, byte_size) ==
    CASE name = "buffer.int!" ->
             {<<IntValue(1), RefValue("ByteBuffer", 1), IntValue(byte_size)>>}
      [] name = "buffer.int@" ->
             {<<RefValue("ByteBuffer", 1), IntValue(byte_size),
                BoolValue(signed)>> : signed \in BOOLEAN}
      [] name = "buffer.float!" ->
             {<<FloatValue(value), RefValue("ByteBuffer", 1),
                IntValue(byte_size)>> : value \in {0, 1}}
      [] name = "buffer.string!" ->
             {<<StringValue(PlainString(text)), RefValue("ByteBuffer", 1),
                IntValue(byte_size)>> : text \in StringTexts}
      [] OTHER -> {<<RefValue("ByteBuffer", 1), IntValue(byte_size)>>}

\* A zeroed buffer of no, MaxBufferLen or MaxBufferLen + 8 bytes with its
\* cursor somewhere in it, the arguments of one of BufferWords on the stack,
\* and the word as the block.
InitBuffer ==
    \E k \in 1..Len(BufferWords), byte_size \in AccessSizes,
       len \in {0, MaxBufferLen, MaxBufferLen + 8} :
        \E position \in 0..len :
            \E arguments \in Arguments(BufferWords[k], byte_size) :
                StateIs([Running(BufferWords,
                                 <<[Cell("ByteBuffer",
                                         [i \in 1..len |-> IntValue(0)])
                                       EXCEPT !.position = position]>>,
                                 <<Instruction("Execute", BufferWords[k], 0,
                                               TRUE)>>)
                            EXCEPT !.stack = arguments])

NextBuffer ==
    \/ ExecuteBufferWord
    \/ Finish
    \/ Return

SpecBuffer == InitBuffer /\ [][NextBuffer]_vars

IsBufferWord(name) == \E k \in 1..Len(BufferWords) : BufferWords[k] = name

\* The byte size on the stack of the word about to execute.
AccessSize ==
    IF Cur.name = "buffer.int@" THEN stack[Len(stack) - 1].n
    ELSE Last(stack).n

\* cursor + size exceeds the length of the buffer (on usize).
AccessExceeds ==
    \/ AccessSize < 0
    \/ heap[1].position + AccessSize > Len(heap[1].items)

\* C35: every byte-buffer read or write word checks cursor + size against
\* the length before it touches the buffer and reports a violation as a
\* script error: no access aborts the host.
C35_BufferAccessIsChecked ==
    [][
        (AtOp("Execute") /\ IsBufferWord(Cur.name))
        => /\ status' # "panicked"
           /\ AccessExceeds
              => /\ heap' = heap
                 /\ frames'[Len(frames')].mode = "ret"
                 /\ ~frames'[Len(frames')].res.ok
    ]_vars

----------------------------------------------------------------------------
(* Loops and catch frames *)

MaxCatchCode == 4

\* The most catch locations a block marks at a time and the most error
\* strings it leaves on the stack: a block that jumps back to its try block
\* marks and catches without end.
MaxCaught == 2

\* The blocks of try blocks and loops: a failing word among the loop and
\* catch instructions.
LoopCatchPrograms ==
    LET Ops == {Instruction(op, "", rel, FALSE) :
                    op \in {"MarkLoopExit", "MarkCatch"}, rel \in 1..MaxJump}
               \cup {Instruction(op, "", 0, FALSE) :
                         op \in {"UnmarkLoopExit", "UnmarkCatch",
                                 "JumpLoopExit", "JumpTarget"}}
               \cup {Instruction("Execute", "nope", 0, FALSE)}
    IN  UNION {[1..n -> Ops] : n \in 1..MaxCatchCode}

InitLoopCatch ==
    \E code \in LoopCatchPrograms : StateIs(Running(<<>>, <<>>, code))

NextLoopCatch ==
    \/ MarkLoopExit
    \/ UnmarkLoopExit
    \/ AtOp("MarkCatch") /\ Len(Top(M).catch_locations) < MaxCaught
       /\ MarkCatch
    \/ UnmarkCatch
    \/ JumpLoopExit
    \/ JumpTarget
    \/ Len(stack) < MaxCaught /\ Execute
    \/ Finish
    \/ Return

SpecLoopCatch == InitLoopCatch /\ [][NextLoopCatch]_vars

\* s is t with entries added.
ProperPrefix(t, s) == Len(t) < Len(s) /\ SubSeq(s, 1, Len(t)) = t

\* C36: when an error raised inside a loop body is caught by a catch frame
\* marked outside that loop, the loop stack afterwards is the one of the
\* moment the catch frame was marked, so that a later JumpLoopStart or
\* JumpLoopExit targets the loop around the try block.
C36_CatchRestoresLoopStack ==
    [][
        event'.kind = "catch"
        => LET level == event'.level
               f == frames[level]
               marked == Last(f.catch_marks).loop_locations
           IN  ProperPrefix(marked, f.loop_locations)
               => frames'[level].loop_locations = marked
    ]_vars

----------------------------------------------------------------------------
(* Contexts and catch frames *)

\* C37: when a script error is caught, the contexts the invocation opened
\* after the MarkCatch and had not released when the error occurred are
\* released before execution resumes at the catch target.
C37_CatchReleasesOpenContexts ==
    [][
        ( /\ event'.kind = "catch"
          /\ event'.level = Len(frames)
          /\ Len(frames') = Len(frames) )
        => LET f == Top(M)
               opened == f.contexts - Last(f.catch_marks).contexts
           IN  opened > 0
               => /\ frames'[Len(frames')].contexts = f.contexts - opened
                  /\ Len(dictionary') = Len(dictionary) - opened
                  /\ Len(variables') = Len(variables) - opened
    ]_vars

----------------------------------------------------------------------------
(* Variables: read_variable and write_variable *)

\* IndexMut for ContextualList followed by the assignment of value
ListIndexMut(l, index, value) ==
    LET holders == {k \in 1..Len(l) : l[k].start_index <= index}
        k == CHOOSE i \in holders : \A j \in holders : j <= i
        at == index - l[k].start_index
    IN  IF index < 0 \/ index >= ListLen(l) \/ holders = {}
           \/ at >= Len(l[k].items)
        THEN [panic |-> TRUE, v |-> l]
        ELSE [panic |-> FALSE, v |-> [l EXCEPT ![k].items[at + 1] = value]]

\* SorthInterpreter::read_variable
read_variable(m) ==
    LET index == pop_as_int(m)
        found == ListIndex(index.m.variables, index.n)
    IN  IF ~index.res.ok THEN Outcome(index.m, index.res, FALSE)
        ELSE IF ~UsizeLt(index.n, ListLen(index.m.variables))
        THEN Outcome(index.m,
                     script_error(index.m,
                         "Read index " \o IntToString(index.n)
                         \o " out of range of variable set."),
                     FALSE)
        ELSE IF found.panic THEN Outcome(index.m, Ok, TRUE)
        ELSE Outcome(push(index.m, clone(found.value)), Ok, FALSE)

\* SorthInterpreter::write_variable
write_variable(m) ==
    LET index == pop_as_int(m)
        value == pop(index.m)
        written == ListIndexMut(value.m.variables, index.n, value.value)
    IN  IF ~index.res.ok THEN Outcome(index.m, index.res, FALSE)
        ELSE IF ~value.res.ok THEN Outcome(value.m, value.res, FALSE)
        ELSE IF ~UsizeLt(index.n, ListLen(value.m.variables))
        THEN Outcome(value.m,
                     script_error(value.m,
                         "Write index " \o IntToString(index.n)
                         \o " out of range of variable set."),
                     FALSE)
        ELSE IF written.panic THEN Outcome(value.m, Ok, TRUE)
        ELSE Outcome([value.m EXCEPT !.variables = written.v], Ok, FALSE)

\* Op::ReadVariable
ReadVariable ==
    /\ AtOp("ReadVariable")
    /\ LET read == read_variable(Fetch(Begin))
       IN  IF read.panic THEN Commit(Panic(read.m))
           ELSE Complete(read.m, read.res)

\* Op::WriteVariable
WriteVariable ==
    /\ AtOp("WriteVariable")
    /\ LET written == write_variable(Fetch(Begin))
       IN  IF written.panic THEN Commit(Panic(written.m))
           ELSE Complete(written.m, written.res)

MaxVariableCode == 4

\* The blocks of the host: they call addr, define the variable y, and read
\* and write variables through the indices on the stack.
VariablePrograms ==
    LET Ops == {Instruction("Execute", "addr", 0, FALSE),
                Instruction("DefVariable", "y", 0, FALSE),
                Instruction("ReadVariable", "", 0, FALSE),
                Instruction("WriteVariable", "", 0, FALSE)}
    IN  UNION {[1..n -> Ops] : n \in 1..MaxVariableCode}

\* The Managed word addr defines the variable x in its own context and
\* leaves the index of x on the stack; the context is released when addr
\* returns.
InitVariable ==
    \E code \in VariablePrograms :
        LET m1 == add_word(NewInterpreter, "addr",
                      [kind |-> "scripted", name |-> "addr",
                       context |-> "Managed",
                       code |-> <<Instruction("DefVariable", "x", 0, FALSE),
                                  Instruction("Execute", "x", 0, FALSE)>>])
        IN  StateIs([m1 EXCEPT !.status = "running",
                               !.frames = <<NewFrame(m1, "top", code,
                                                     "None")>>])

NextVariable ==
    \/ Execute
    \/ DefVariable
    \/ ReadVariable
    \/ WriteVariable
    \/ Finish
    \/ Return

SpecVariable == InitVariable /\ [][NextVariable]_vars

\* The host's block is about to read or write through an index: every
\* integer on its stack is the index addr returned, that of the variable x
\* of a released context, or a copy of it read back from a slot.
AtStaleIndex ==
    /\ AtOp("ReadVariable") \/ AtOp("WriteVariable")
    /\ Len(frames) = 1
    /\ stack # <<>>
    /\ Last(stack).t = "Int"

\* C38: an index whose defining frame has been released never designates a
\* live slot again: ReadVariable and WriteVariable through it yield a script
\* error and leave the variables alone, whatever was defined after the
\* release.
C38_StaleIndexIsAnError ==
    [][
        AtStaleIndex
        => /\ variables' = variables
           /\ frames'[Len(frames')].mode = "ret"
           /\ ~frames'[Len(frames')].res.ok
    ]_vars

====
